---------------------------- MODULE Spec2Model ----------------------------
(***************************************************************************)
(* KuzuMem-MCP memory service kernel.                                      *)
(*                                                                         *)
(* Part A: MemoryService.getInstance (promise-based singleton) and the     *)
(*         per-project-root client registry behind getKuzuClient.          *)
(* Part B: the graph store as written by the Cypher queries of the         *)
(*         repositories and memory operations (File, Tag, Component,       *)
(*         Decision, Metadata, Repository nodes; CONTAINS_FILE and         *)
(*         IS_TAGGED_WITH relationships) and the bulk deletes.             *)
(***************************************************************************)
EXTENDS Integers, Sequences, FiniteSets, TLC

(***************************************************************************)
(* Bounds of the model.                                                    *)
(***************************************************************************)
MaxItems == 2
MaxDay == 3
MaxClock == 3
MaxAssociations == 2
MaxDepth == 3
MaxRequests == 3
MaxRequestId == 2
MaxEvents == 2
NumCallers == 2
MaxCalls == 2
MaxInits == 2
MaxClientInits == MaxInits

VARIABLES
  \* ---- Part A: MemoryService statics and callers ----
  instance,               \* MemoryService.instance (0 = undefined)
  initializationPromise,  \* MemoryService.initializationPromise (0 = null)
  promises,               \* promise id -> [state, value] of the init promises
  serviceContainer,       \* instance id -> BOOLEAN (this.serviceContainer set)
  initializeCalls,        \* number of MemoryService.initialize invocations
  initializeFailures,     \* number of failed initialisations
  kuzuClients,            \* registry: project root -> ready client (0 = none)
  clientInit,             \* registry: project root -> pending promise (0 = none)
  clientPromises,         \* client promise id -> [state, value, root]
  clientInitCalls,        \* project root -> number of store-client initialisations
  callerPc,               \* caller -> position
  callerWait,             \* caller -> what the caller's await is bound to
  callerHeld,             \* caller -> MemoryService instance it holds (0 = none)
  callerRoot,             \* caller -> project root of its getKuzuClient call
  callerBudget,           \* caller -> calls it may still start
  instanceResults,        \* set of results delivered by getInstance calls
  clientResults,          \* set of <<root, result>> delivered by getKuzuClient
  \* ---- Part B: the graph of one project root ----
  fileNodes,              \* File nodes (primary key id)
  componentNodes,         \* Component nodes (primary key graph_unique_id)
  tagNodes,               \* Tag nodes (primary key id)
  decisionNodes,          \* Decision nodes (primary key graph_unique_id)
  metadataNodes,          \* Metadata nodes (primary key graph_unique_id)
  repositoryNodes,        \* Repository nodes (primary key id = name:branch)
  rels,                   \* relationships: [type, from, to] -> multiplicity
  ret,                    \* what the last operation returned or threw
  \* ---- Part C: the MCP servers ----
  response,               \* outcome of the last tools/call request
  initDone,               \* connections on which init-memory-bank has run
  transports,             \* HTTP session table: the session ids it holds
  issued,                 \* session ids generated so far
  httpResponse,           \* outcome of the last HTTP request or transport close
  requests,               \* tool calls in flight: id, connection, events emitted
  wire,                   \* per connection: progress notifications sent on it
  imp,                    \* the bulk import in progress
  clock,                  \* the last reading of the wall clock (new Date())
  stamps,                 \* entity kind -> created_at / updated_at of its node
  assoc,                  \* the associate call in progress and what it did
  ruleNodes,              \* Rule nodes (primary key graph_unique_id)
  exec                    \* the component-dependencies operation in progress

regVars == <<instance, initializationPromise, promises, serviceContainer,
             initializeCalls, initializeFailures, kuzuClients, clientInit,
             clientPromises, clientInitCalls, callerPc, callerWait, callerHeld,
             callerRoot, callerBudget, instanceResults, clientResults>>

graphVars == <<fileNodes, componentNodes, tagNodes, decisionNodes, metadataNodes,
               repositoryNodes, rels>>

dispVars == <<response, initDone>>
httpVars == <<transports, issued, httpResponse>>
progVars == <<requests, wire>>
opVars == <<clock, stamps, assoc, ruleNodes, exec>>
auxVars == <<imp, opVars>>
srvVars == <<dispVars, httpVars, progVars, auxVars>>

vars == <<regVars, graphVars, ret, srvVars>>

Callers == 1..NumCallers
Roots == {"rootA", "rootB"}
PromiseIds == 1..MaxInits
ClientPromiseIds == 1..MaxClientInits

\* A settled or immediate value handed to an awaiting caller.
Ok(v) == [ok |-> TRUE, val |-> v]
Err == [ok |-> FALSE, val |-> 0]

NoWait == [kind |-> "none", ref |-> 0]
WaitValue(v) == [kind |-> "value", ref |-> v]
WaitPromise(p) == [kind |-> "promise", ref |-> p]
WaitError == [kind |-> "error", ref |-> 0]

Init ==
  /\ instance = 0
  /\ initializationPromise = 0
  /\ promises = [p \in PromiseIds |-> [state |-> "unused", value |-> 0]]
  /\ serviceContainer = [i \in PromiseIds |-> FALSE]
  /\ initializeCalls = 0
  /\ initializeFailures = 0
  /\ kuzuClients = [r \in Roots |-> 0]
  /\ clientInit = [r \in Roots |-> 0]
  /\ clientPromises = [p \in ClientPromiseIds |->
                         [state |-> "unused", value |-> 0, root |-> "rootA"]]
  /\ clientInitCalls = [r \in Roots |-> 0]
  /\ callerPc = [c \in Callers |-> "idle"]
  /\ callerWait = [c \in Callers |-> NoWait]
  /\ callerHeld = [c \in Callers |-> 0]
  /\ callerRoot = [c \in Callers |-> "rootA"]
  /\ callerBudget = [c \in Callers |-> MaxCalls]
  /\ instanceResults = {}
  /\ clientResults = {}
  /\ fileNodes = {}
  /\ componentNodes = {}
  /\ tagNodes = {}
  /\ decisionNodes = {}
  /\ metadataNodes = {}
  /\ repositoryNodes = {}
  /\ rels = [e \in {} |-> 0]
  /\ ret = [op |-> "none", args |-> [none |-> TRUE], outcome |-> "returned",
           value |-> [none |-> TRUE]]
  /\ response = [transport |-> "none", connection |-> "none", toolName |-> "none",
                 hasRoot |-> FALSE, serviceAvailable |-> TRUE, outcome |-> "none",
                 kind |-> "none", isError |-> FALSE, structuredContent |-> FALSE,
                 text |-> "none", handlerInvoked |-> FALSE]
  /\ initDone = {}
  /\ transports = {}
  /\ issued = {}
  /\ httpResponse = [method |-> "none", header |-> <<"none", 0>>,
                     isInitialize |-> FALSE, status |-> "none",
                     reachedTransport |-> FALSE, created |-> <<"none", 0>>,
                     closed |-> <<"none", 0>>]
  /\ requests = [slot \in 1..MaxRequests |->
                   [state |-> "idle", requestId |-> 0, connection |-> "none",
                    context |-> "none", emitted |-> 0, connectionLost |-> FALSE]]
  /\ wire = [c \in {"c1", "c2"} |-> << >>]
  /\ imp = [state |-> "idle", overwrite |-> FALSE, items |-> << >>, i |-> 1,
            pc |-> "none", imported |-> 0, skipped |-> 0, failed |-> 0,
            errors |-> << >>, processed |-> << >>, events |-> << >>,
            cancelled |-> FALSE, cancelIndex |-> 0, cancelEvents |-> 0,
            result |-> "none"]
  /\ clock = 0
  /\ stamps = [kind \in {"Tag", "File", "Metadata", "Decision"} |->
                 [exists |-> FALSE, created_at |-> 0, updated_at |-> 0]]
  /\ assoc = [pc |-> "idle", params |-> [type |-> "none", fileId |-> "missing",
                 componentId |-> "missing", itemId |-> "missing",
                 tagId |-> "missing", entityType |-> "missing"],
               passed |-> FALSE, trace |-> << >>, service |-> "none",
               result |-> "none", served |-> 0]
  /\ ruleNodes = {}
  /\ exec = [done |-> FALSE, valid |-> FALSE, hasHandler |-> FALSE,
              reportingFailed |-> FALSE, trace |-> << >>, result |-> "none"]


(***************************************************************************)
(* MemoryService.getInstance                                               *)
(***************************************************************************)

\* `if (MemoryService.instance) return MemoryService.instance;`
HasInstance == instance # 0

HasPendingInitialization_Never == FALSE
\* `if (MemoryService.initializationPromise) return MemoryService.initializationPromise;`
HasPendingInitialization == initializationPromise # 0

\* The async IIFE up to its first suspension: the double check finds no
\* instance, `new MemoryService()` is created and initialize() is entered,
\* which suspends on `await ServiceContainer.getInstance()`.  The k-th
\* initialisation creates instance k and its promise k.
StartInitialization(c) ==
  LET k == initializeCalls + 1 IN
  /\ k <= MaxInits
  /\ initializeCalls' = k
  /\ promises' = [promises EXCEPT ![k] = [state |-> "pending", value |-> 0]]
  /\ initializationPromise' = k
  /\ callerWait' = [callerWait EXCEPT ![c] = WaitPromise(k)]
  /\ UNCHANGED <<instance, serviceContainer, initializeFailures>>

GetInstance(c) ==
  /\ callerPc[c] = "idle"
  /\ callerBudget[c] > 0
  /\ callerBudget' = [callerBudget EXCEPT ![c] = @ - 1]
  /\ callerPc' = [callerPc EXCEPT ![c] = "awaitInstance"]
  /\ IF HasInstance
       THEN /\ callerWait' = [callerWait EXCEPT ![c] = WaitValue(instance)]
            /\ UNCHANGED <<instance, initializationPromise, promises,
                           serviceContainer, initializeCalls, initializeFailures>>
       ELSE IF HasPendingInitialization
         THEN /\ callerWait' = [callerWait EXCEPT ![c] =
                                  WaitPromise(initializationPromise)]
              /\ UNCHANGED <<instance, initializationPromise, promises,
                             serviceContainer, initializeCalls, initializeFailures>>
         ELSE StartInitialization(c)
  /\ UNCHANGED <<kuzuClients, clientInit, clientPromises, clientInitCalls,
                 callerHeld, callerRoot, instanceResults, clientResults>>
  /\ UNCHANGED <<graphVars, ret, srvVars>>

PromiseAfterFailure_Kept(p) == p
\* catch block of the IIFE: `MemoryService.initializationPromise = null;`
PromiseAfterFailure(p) == 0

\* catch blocks of initialize and of the IIFE rethrow: the promise rejects.
FailureOutcome(i) == [state |-> "rejected", value |-> 0]

\* ServiceContainer.getInstance() resolved: initialize() returns, the IIFE
\* publishes the instance, clears the promise and resolves with the instance.
InitializeSucceeds ==
  /\ initializationPromise # 0
  /\ promises[initializationPromise].state = "pending"
  /\ LET p == initializationPromise IN
       /\ serviceContainer' = [serviceContainer EXCEPT ![p] = TRUE]
       /\ instance' = p
       /\ initializationPromise' = 0
       /\ promises' = [promises EXCEPT ![p] = [state |-> "fulfilled", value |-> p]]
  /\ UNCHANGED <<initializeCalls, initializeFailures, kuzuClients, clientInit,
                 clientPromises, clientInitCalls, callerPc, callerWait, callerHeld,
                 callerRoot, callerBudget, instanceResults, clientResults>>
  /\ UNCHANGED <<graphVars, ret, srvVars>>

\* ServiceContainer.getInstance() rejected: initialize() clears
\* this.serviceContainer and throws; the IIFE clears the promise and rethrows.
InitializeFails ==
  /\ initializationPromise # 0
  /\ promises[initializationPromise].state = "pending"
  /\ LET p == initializationPromise IN
       /\ serviceContainer' = [serviceContainer EXCEPT ![p] = FALSE]
       /\ initializationPromise' = PromiseAfterFailure(p)
       /\ promises' = [promises EXCEPT ![p] = FailureOutcome(p)]
  /\ initializeFailures' = initializeFailures + 1
  /\ UNCHANGED <<instance, initializeCalls, kuzuClients, clientInit,
                 clientPromises, clientInitCalls, callerPc, callerWait, callerHeld,
                 callerRoot, callerBudget, instanceResults, clientResults>>
  /\ UNCHANGED <<graphVars, ret, srvVars>>

\* What an await bound to w delivers, once it can deliver.
Settled(w) ==
  \/ w.kind \in {"value", "error"}
  \/ w.kind = "promise" /\ promises[w.ref].state \in {"fulfilled", "rejected"}

Delivered(w) ==
  IF w.kind = "value" THEN Ok(w.ref)
  ELSE IF w.kind = "error" THEN Err
  ELSE IF promises[w.ref].state = "fulfilled" THEN Ok(promises[w.ref].value)
  ELSE Err

\* The caller's `await MemoryService.getInstance()` resumes.
ResumeInstance(c) ==
  /\ callerPc[c] = "awaitInstance"
  /\ Settled(callerWait[c])
  /\ LET w == callerWait[c]
         res == Delivered(w) IN
       /\ instanceResults' = instanceResults \cup
            {[promise |-> IF w.kind = "promise" THEN w.ref ELSE 0, res |-> res]}
       /\ callerHeld' = [callerHeld EXCEPT ![c] = IF res.ok THEN res.val ELSE 0]
       /\ callerPc' = [callerPc EXCEPT ![c] = IF res.ok THEN "ready" ELSE "idle"]
  /\ callerWait' = [callerWait EXCEPT ![c] = NoWait]
  /\ UNCHANGED <<instance, initializationPromise, promises, serviceContainer,
                 initializeCalls, initializeFailures, kuzuClients, clientInit,
                 clientPromises, clientInitCalls, callerRoot, callerBudget,
                 clientResults>>
  /\ UNCHANGED <<graphVars, ret, srvVars>>

(***************************************************************************)
(* MemoryService.getKuzuClient and the client registry it delegates to     *)
(***************************************************************************)

\* `if (!this.serviceContainer) throw new Error('MemoryService not initialized')`
NotInitialized(i) == ~serviceContainer[i]

\* Registry step 1: a ready client for the root is cached.
ClientCached(r) == kuzuClients[r] # 0

ClientPending_Never(r) == FALSE
\* Registry step 2: an initialisation is in flight for the root.
ClientPending(r) == clientInit[r] # 0

\* The next unused client promise; the client it will create has the same id.
NextClientPromise ==
  CHOOSE p \in ClientPromiseIds :
    /\ clientPromises[p].state = "unused"
    /\ \A q \in ClientPromiseIds : clientPromises[q].state = "unused" => p <= q

\* Registry step 3, up to the suspension on opening the store client.
StartClientInitialization(c, r) ==
  /\ \E p \in ClientPromiseIds : clientPromises[p].state = "unused"
  /\ LET p == NextClientPromise IN
       /\ clientPromises' = [clientPromises EXCEPT ![p] =
                               [state |-> "pending", value |-> 0, root |-> r]]
       /\ clientInit' = [clientInit EXCEPT ![r] = p]
       /\ callerWait' = [callerWait EXCEPT ![c] = WaitPromise(p)]
  /\ clientInitCalls' = [clientInitCalls EXCEPT ![r] = @ + 1]
  /\ UNCHANGED kuzuClients

GetKuzuClient(c, r) ==
  /\ callerPc[c] = "ready"
  /\ callerBudget[c] > 0
  /\ callerBudget' = [callerBudget EXCEPT ![c] = @ - 1]
  /\ callerPc' = [callerPc EXCEPT ![c] = "awaitClient"]
  /\ callerRoot' = [callerRoot EXCEPT ![c] = r]
  /\ IF NotInitialized(callerHeld[c])
       THEN /\ callerWait' = [callerWait EXCEPT ![c] = WaitError]
            /\ UNCHANGED <<kuzuClients, clientInit, clientPromises, clientInitCalls>>
       ELSE IF ClientCached(r)
         THEN /\ callerWait' = [callerWait EXCEPT ![c] = WaitValue(kuzuClients[r])]
              /\ UNCHANGED <<kuzuClients, clientInit, clientPromises, clientInitCalls>>
         ELSE IF ClientPending(r)
           THEN /\ callerWait' = [callerWait EXCEPT ![c] = WaitPromise(clientInit[r])]
                /\ UNCHANGED <<kuzuClients, clientInit, clientPromises,
                               clientInitCalls>>
           ELSE StartClientInitialization(c, r)
  /\ UNCHANGED <<instance, initializationPromise, promises, serviceContainer,
                 initializeCalls, initializeFailures, callerHeld,
                 instanceResults, clientResults>>
  /\ UNCHANGED <<graphVars, ret, srvVars>>

\* Registry step 3, completion: the client is cached and waiters are resolved.
ClientInitSucceeds(r) ==
  /\ clientInit[r] # 0
  /\ clientPromises[clientInit[r]].state = "pending"
  /\ LET p == clientInit[r] IN
       /\ kuzuClients' = [kuzuClients EXCEPT ![r] = p]
       /\ clientPromises' = [clientPromises EXCEPT ![p].state = "fulfilled",
                                                   ![p].value = p]
  /\ clientInit' = [clientInit EXCEPT ![r] = 0]
  /\ UNCHANGED <<instance, initializationPromise, promises, serviceContainer,
                 initializeCalls, initializeFailures, clientInitCalls, callerPc,
                 callerWait, callerHeld, callerRoot, callerBudget, instanceResults,
                 clientResults>>
  /\ UNCHANGED <<graphVars, ret, srvVars>>

\* Registry step 4: the pending marker is cleared and the waiters get the error.
ClientInitFails(r) ==
  /\ clientInit[r] # 0
  /\ clientPromises[clientInit[r]].state = "pending"
  /\ clientPromises' = [clientPromises EXCEPT ![clientInit[r]].state = "rejected"]
  /\ clientInit' = [clientInit EXCEPT ![r] = 0]
  /\ UNCHANGED <<instance, initializationPromise, promises, serviceContainer,
                 initializeCalls, initializeFailures, kuzuClients, clientInitCalls,
                 callerPc, callerWait, callerHeld, callerRoot, callerBudget,
                 instanceResults, clientResults>>
  /\ UNCHANGED <<graphVars, ret, srvVars>>

ClientSettled(w) ==
  \/ w.kind \in {"value", "error"}
  \/ w.kind = "promise" /\ clientPromises[w.ref].state \in {"fulfilled", "rejected"}

ClientDelivered(w) ==
  IF w.kind = "value" THEN Ok(w.ref)
  ELSE IF w.kind = "error" THEN Err
  ELSE IF clientPromises[w.ref].state = "fulfilled"
    THEN Ok(clientPromises[w.ref].value)
  ELSE Err

\* The caller's `await memoryService.getKuzuClient(ctx, root)` resumes.
ResumeClient(c) ==
  /\ callerPc[c] = "awaitClient"
  /\ ClientSettled(callerWait[c])
  /\ clientResults' = clientResults \cup
       {[root |-> callerRoot[c], res |-> ClientDelivered(callerWait[c])]}
  /\ callerPc' = [callerPc EXCEPT ![c] = "ready"]
  /\ callerWait' = [callerWait EXCEPT ![c] = NoWait]
  /\ callerRoot' = [callerRoot EXCEPT ![c] = "rootA"]
  /\ UNCHANGED <<instance, initializationPromise, promises, serviceContainer,
                 initializeCalls, initializeFailures, kuzuClients, clientInit,
                 clientPromises, clientInitCalls, callerHeld,
                 callerBudget, instanceResults>>
  /\ UNCHANGED <<graphVars, ret, srvVars>>

(***************************************************************************)
(* Part B: the graph store.                                                *)
(*                                                                         *)
(* Strings that the code cuts or glues are sequences of tokens; ":" is a   *)
(* token of its own, so `${a}:${b}:${c}` and split(':') are computed.      *)
(***************************************************************************)
Colon == ":"

Includes(s, tok) == \E i \in 1..Len(s) : s[i] = tok

\* index of the first tok in s, Len(s)+1 when there is none
IndexOf(s, tok) ==
  IF Includes(s, tok)
    THEN CHOOSE i \in 1..Len(s) : s[i] = tok /\ \A j \in 1..(i-1) : s[j] # tok
    ELSE Len(s) + 1

RECURSIVE Split(_)
\* String.prototype.split(':')
Split(s) ==
  IF ~Includes(s, Colon)
    THEN <<s>>
    ELSE <<SubSeq(s, 1, IndexOf(s, Colon) - 1)>>
           \o Split(SubSeq(s, IndexOf(s, Colon) + 1, Len(s)))

\* `${repositoryName}:${branch}:${id}`
formatGraphUniqueId(repositoryName, branch, id) ==
  repositoryName \o <<Colon>> \o branch \o <<Colon>> \o id

\* `${name}:${branch}`, the primary key of a Repository node
RepositoryNodeId(name, branch) == name \o <<Colon>> \o branch

RepositoryNames == {<<"r">>}
Branches == {<<"main">>, <<"dev">>}
RepositoryIds == {RepositoryNodeId(n, b) : n \in RepositoryNames, b \in Branches}
\* the calling convention of the memory operations: repositoryId is
\* <repoName>:<branchName> of the branch that is passed with it
Scopes == {<<RepositoryNodeId(n, b), b>> : n \in RepositoryNames, b \in Branches}
FileIds == {<<"f1">>}
ComponentIds == {<<"c1">>}
TagIds == {<<"t1">>}
DecisionIds == {<<"d1">>}
MetadataIds == {<<"meta">>}
Names == {"n1", "n2"}
Undefined == "undefined"
Statuses == {"proposed", "approved", "implemented", "failed"}

\* A node pattern {k1: v1, ...} of MATCH / MERGE selects the nodes that carry
\* every property of the pattern with the given value.
Matches(node, pattern) ==
  \A k \in DOMAIN pattern : k \in DOMAIN node /\ node[k] = pattern[k]

NodesOf(label) ==
  CASE label = "File" -> fileNodes
    [] label = "Component" -> componentNodes
    [] label = "Tag" -> tagNodes
    [] label = "Decision" -> decisionNodes
    [] label = "Metadata" -> metadataNodes
    [] label = "Repository" -> repositoryNodes
    [] OTHER -> {}

\* primary key of a node of the label
PrimaryKey(label, node) ==
  IF label \in {"File", "Tag", "Repository"} THEN node.id ELSE node.graph_unique_id

NodeRef(label, node) == [label |-> label, key |-> PrimaryKey(label, node)]

Edge(type, from, to) == [type |-> type, from |-> from, to |-> to]

\* MATCH ... MERGE (a)-[:type]->(b) over the matched rows: every row binds the
\* existing edge of its pair and creates one only when the pair has none
MergeEdges(rs, es) ==
  [x \in DOMAIN rs \cup es |-> IF x \in DOMAIN rs THEN rs[x] ELSE 1]

\* DETACH DELETE of the nodes refs: their relationships go with them
DetachEdges(rs, refs) ==
  [x \in {e \in DOMAIN rs : e.from \notin refs /\ e.to \notin refs} |-> rs[x]]

Returned(op, args, value) ==
  [op |-> op, args |-> args, outcome |-> "returned", value |-> value]
Threw(op, args) ==
  [op |-> op, args |-> args, outcome |-> "threw", value |-> [error |-> TRUE]]

(***************************************************************************)
(* Write operations.  engineFails is the store rejecting the query (the    *)
(* connection is lost, the statement is refused): executeQuery throws.     *)
(***************************************************************************)

\* Component upsert: the node is keyed by graph_unique_id and carries the
\* repository and branch it was written with.
upsertComponent(repositoryId, branchName, id, name) ==
  LET gid == formatGraphUniqueId(Split(repositoryId)[1], branchName, id)
      matched == {c \in componentNodes : Matches(c, [graph_unique_id |-> gid])}
      node == [graph_unique_id |-> gid, id |-> id, name |-> name,
               repository |-> repositoryId, branch |-> branchName]
  IN /\ componentNodes' = (componentNodes \ matched) \cup {node}
     /\ ret' = Returned("upsertComponent",
                        [repositoryId |-> repositoryId, branchName |-> branchName,
                         id |-> id], node)
     /\ UNCHANGED <<fileNodes, tagNodes, decisionNodes, metadataNodes,
                    repositoryNodes, rels, regVars, srvVars>>

\* services/memory-operations/file.ops.ts: MERGE (f:File {id: $id})
addFileOp(repositoryId, branchName, id, name, engineFails) ==
  LET args == [repositoryId |-> repositoryId, branchName |-> branchName,
               id |-> id, name |-> name]
      matched == {f \in fileNodes : Matches(f, [id |-> id])}
      node == [id |-> id, name |-> name, repository |-> repositoryId,
               branch |-> branchName]
  IN /\ IF engineFails
          THEN /\ ret' = Threw("addFileOp", args)
               /\ UNCHANGED fileNodes
          ELSE /\ fileNodes' =
                    IF matched = {}
                      THEN fileNodes \cup {node}
                      ELSE (fileNodes \ matched) \cup
                             {[f EXCEPT !.name = name, !.repository = repositoryId,
                                        !.branch = branchName] : f \in matched}
               /\ ret' = Returned("addFileOp", args, node)
     /\ UNCHANGED <<componentNodes, tagNodes, decisionNodes, metadataNodes,
                    repositoryNodes, rels, regVars, srvVars>>

\* The older file operations module:
\* MERGE (f:File {id: $id, repository: $repository, branch: $branch}).
\* When no node carries all three values the MERGE creates one, and the
\* store refuses a second File with the primary key id.
addFileOp_part004(repositoryId, branchName, id, name, engineFails) ==
  LET args == [repositoryId |-> repositoryId, branchName |-> branchName,
               id |-> id, name |-> name]
      matched == {f \in fileNodes :
                    Matches(f, [id |-> id, repository |-> repositoryId,
                                branch |-> branchName])}
      samePrimaryKey == {f \in fileNodes : PrimaryKey("File", f) = id}
      node == [id |-> id, name |-> name, repository |-> repositoryId,
               branch |-> branchName]
  IN /\ IF engineFails \/ (matched = {} /\ samePrimaryKey # {})
          THEN /\ ret' = Threw("addFileOp_part004", args)
               /\ UNCHANGED fileNodes
          ELSE /\ fileNodes' =
                    IF matched = {}
                      THEN fileNodes \cup {node}
                      ELSE (fileNodes \ matched) \cup
                             {[f EXCEPT !.name = name] : f \in matched}
               /\ ret' = Returned("addFileOp_part004", args, node)
     /\ UNCHANGED <<componentNodes, tagNodes, decisionNodes, metadataNodes,
                    repositoryNodes, rels, regVars, srvVars>>

\* rows of MATCH (a:labelA {patternA}), (b:labelB {patternB})
MatchPairs(labelA, patternA, labelB, patternB) ==
  {<<NodeRef(labelA, a), NodeRef(labelB, b)>> :
     a \in {n \in NodesOf(labelA) : Matches(n, patternA)},
     b \in {n \in NodesOf(labelB) : Matches(n, patternB)}}

\* MATCH (c:Component {id, repository, branch}), (f:File {id, repository, branch})
\* MERGE (c)-[r:CONTAINS_FILE]->(f) RETURN r
associateFileWithComponentOp(repositoryId, branchName, componentId, fileId, engineFails) ==
  LET args == [repositoryId |-> repositoryId, branchName |-> branchName,
               componentId |-> componentId, fileId |-> fileId]
      rows == MatchPairs("Component",
                         [id |-> componentId, repository |-> repositoryId,
                          branch |-> branchName],
                         "File",
                         [id |-> fileId, repository |-> repositoryId,
                          branch |-> branchName])
  IN /\ IF engineFails
          THEN /\ ret' = Threw("associateFileWithComponentOp", args)
               /\ UNCHANGED rels
          ELSE /\ rels' = MergeEdges(rels, {Edge("CONTAINS_FILE", row[1], row[2]) :
                                             row \in rows})
               /\ ret' = Returned("associateFileWithComponentOp", args,
                                  [success |-> rows # {}])
     /\ UNCHANGED <<fileNodes, componentNodes, tagNodes, decisionNodes,
                    metadataNodes, repositoryNodes, regVars, srvVars>>

\* MERGE (t:Tag {id: $id}) ON CREATE / ON MATCH SET t.name = $name, ...
addTagOp(id, name, engineFails) ==
  LET args == [id |-> id, name |-> name]
      matched == {t \in tagNodes : Matches(t, [id |-> id])}
      node == [id |-> id, name |-> name]
  IN /\ IF engineFails
          THEN /\ ret' = Threw("addTagOp", args)
               /\ UNCHANGED tagNodes
          ELSE /\ tagNodes' = (tagNodes \ matched) \cup {node}
               /\ ret' = Returned("addTagOp", args, node)
     /\ UNCHANGED <<fileNodes, componentNodes, decisionNodes, metadataNodes,
                    repositoryNodes, rels, regVars, srvVars>>

ItemTypes == {"Component", "Decision", "File"}

\* MATCH (item:itemLabel {id, repository, branch}), (tag:Tag {id: $tagId})
\* MERGE (item)-[r:IS_TAGGED_WITH]->(tag) RETURN r
tagItemOp(repositoryId, branchName, itemId, itemType, tagId, engineFails) ==
  LET args == [repositoryId |-> repositoryId, branchName |-> branchName,
               itemId |-> itemId, itemType |-> itemType, tagId |-> tagId]
      rows == MatchPairs(itemType,
                         [id |-> itemId, repository |-> repositoryId,
                          branch |-> branchName],
                         "Tag", [id |-> tagId])
  IN /\ IF engineFails
          THEN /\ ret' = Threw("tagItemOp", args)
               /\ UNCHANGED rels
          ELSE /\ rels' = MergeEdges(rels, {Edge("IS_TAGGED_WITH", row[1], row[2]) :
                                             row \in rows})
               /\ ret' = Returned("tagItemOp", args, [success |-> rows # {}])
     /\ UNCHANGED <<fileNodes, componentNodes, tagNodes, decisionNodes,
                    metadataNodes, repositoryNodes, regVars, srvVars>>

\* calendar days, counted from the first day of the model; new Date(date)
\* of a 'YYYY-MM-DD' string is that day
FirstDay == 1
Days == FirstDay..MaxDay

\* status: status || 'proposed'
StatusOrDefault(status) == IF status = Undefined THEN "proposed" ELSE status

\* the repository field of a returned Decision
DecisionRepositoryField(repositoryName, branch) ==
  repositoryName \o <<Colon>> \o branch

formatKuzuRowToDecision(row, repositoryName, branch) ==
  [id |-> row.id,
   graph_unique_id |-> row.graph_unique_id,
   name |-> row.title,
   date |-> row.dateCreated,
   branch |-> branch,
   repository |-> DecisionRepositoryField(repositoryName, branch),
   status |-> row.status]

\* MERGE (d:Decision {id: $id, graph_unique_id: $graphUniqueId})
\* ON CREATE SET / ON MATCH SET d.title = $name, d.status = $status, ...
upsertDecision(repositoryNodeId, branch, logicalId, name, status, date, engineFails) ==
  LET args == [repository |-> repositoryNodeId, branch |-> branch,
               id |-> logicalId, name |-> name, status |-> status,
               date |-> date, engineFails |-> engineFails]
      logicalRepositoryName == Split(repositoryNodeId)[1]
      graphUniqueId == formatGraphUniqueId(logicalRepositoryName, branch, logicalId)
      matched == {d \in decisionNodes :
                    Matches(d, [id |-> logicalId, graph_unique_id |-> graphUniqueId])}
      samePrimaryKey == {d \in decisionNodes :
                           PrimaryKey("Decision", d) = graphUniqueId}
      node == [id |-> logicalId, graph_unique_id |-> graphUniqueId,
               title |-> name, dateCreated |-> date,
               status |-> StatusOrDefault(status)]
  IN /\ IF engineFails \/ (matched = {} /\ samePrimaryKey # {})
          THEN /\ ret' = Threw("upsertDecision", args)
               /\ UNCHANGED decisionNodes
          ELSE /\ decisionNodes' =
                    IF matched = {}
                      THEN decisionNodes \cup {node}
                      ELSE (decisionNodes \ matched) \cup
                             {[d EXCEPT !.title = name, !.dateCreated = date,
                                        !.status = StatusOrDefault(status)] :
                                d \in matched}
               /\ ret' = Returned("upsertDecision", args,
                                  formatKuzuRowToDecision(node, logicalRepositoryName,
                                                          branch))
     /\ UNCHANGED <<fileNodes, componentNodes, tagNodes, metadataNodes,
                    repositoryNodes, rels, regVars, srvVars>>

EmptyString == << >>
UnknownRepo == <<"unknown_repo">>
UnknownBranch == <<"unknown_branch">>

\* the branch segment of a Metadata graph_unique_id
MetadataBranchForGid(repository, branch) ==
  IF repository # EmptyString /\ Includes(repository, Colon)
    THEN (IF Len(Split(repository)) > 1 THEN Split(repository)[2] ELSE branch)
    ELSE (IF branch = EmptyString THEN UnknownBranch ELSE branch)

MetadataRepoNameForGid(repository) ==
  IF repository # EmptyString /\ Includes(repository, Colon)
    THEN Split(repository)[1]
    ELSE (IF repository = EmptyString THEN UnknownRepo ELSE repository)

\* MERGE (m:Metadata {graph_unique_id: $gid})
\* ON CREATE SET m.id, m.branch, m.name, ...  ON MATCH SET m.name, ...
\* then findMetadata; an engine error is caught and a value built from the
\* input is returned.
upsertMetadata(repository, branch, id, name, engineFails) ==
  LET args == [repository |-> repository, branch |-> branch, id |-> id,
               name |-> name, engineFails |-> engineFails]
      gid == formatGraphUniqueId(MetadataRepoNameForGid(repository),
                                 MetadataBranchForGid(repository, branch), id)
      matched == {m \in metadataNodes : Matches(m, [graph_unique_id |-> gid])}
      created == [graph_unique_id |-> gid, id |-> id, branch |-> branch,
                  name |-> name]
      written == IF matched = {}
                   THEN {created}
                   ELSE {[m EXCEPT !.name = name] : m \in matched}
      constructed == [id |-> id, repository |-> repository, branch |-> branch,
                      name |-> name, graph_unique_id |-> gid]
  IN /\ IF engineFails
          THEN /\ ret' = Returned("upsertMetadata", args, constructed)
               /\ UNCHANGED metadataNodes
          ELSE /\ metadataNodes' = (metadataNodes \ matched) \cup written
               /\ ret' = Returned("upsertMetadata", args,
                                  CHOOSE m \in written : TRUE)
     /\ UNCHANGED <<fileNodes, componentNodes, tagNodes, decisionNodes,
                    repositoryNodes, rels, regVars, srvVars>>

\* RepositoryRepository.create: CREATE (r:Repository {id: name:branch, ...})
RepositoryCreate(name, branchInput) ==
  LET args == [name |-> name, branch |-> branchInput]
      branch == IF branchInput = EmptyString THEN <<"main">> ELSE branchInput
      syntheticId == RepositoryNodeId(name, branch)
      node == [id |-> syntheticId, name |-> name, branch |-> branch]
  IN /\ IF \E r \in repositoryNodes : PrimaryKey("Repository", r) = syntheticId
          THEN /\ ret' = Threw("RepositoryCreate", args)
               /\ UNCHANGED repositoryNodes
          ELSE /\ repositoryNodes' = repositoryNodes \cup {node}
               /\ ret' = Returned("RepositoryCreate", args, node)
     /\ UNCHANGED <<fileNodes, componentNodes, tagNodes, decisionNodes,
                    metadataNodes, rels, regVars, srvVars>>

(***************************************************************************)
(* Bulk deletes.  A bulk delete issues several queries; `succeeding` is    *)
(* the number of them the store answers before one throws.                 *)
(***************************************************************************)
Labels == {"File", "Component", "Tag", "Decision", "Metadata", "Repository",
           "Rule", "Context"}

CurrentGraph == [nodes |-> [l \in Labels |-> NodesOf(l)], rels |-> rels]

Install(g) ==
  /\ fileNodes' = g.nodes["File"]
  /\ componentNodes' = g.nodes["Component"]
  /\ tagNodes' = g.nodes["Tag"]
  /\ decisionNodes' = g.nodes["Decision"]
  /\ metadataNodes' = g.nodes["Metadata"]
  /\ repositoryNodes' = g.nodes["Repository"]
  /\ rels' = g.rels

\* ${dryRun ? '' : 'DETACH DELETE n'}
Deletes_Always(dryRun) == TRUE
Deletes(dryRun) == ~dryRun

\* DETACH DELETE of the matched nodes of one label
DetachDelete(g, label, matched) ==
  [nodes |-> [g.nodes EXCEPT ![label] = @ \ matched],
   rels |-> DetachEdges(g.rels, {NodeRef(label, n) : n \in matched})]

Null == "null"

\* RETURN n.id as id, n.name as name, mapped to {type, id, name}
EntityRows(label, matched) ==
  {[type |-> label, id |-> n.id,
    name |-> IF "name" \in DOMAIN n THEN n.name ELSE Null] : n \in matched}

\* MATCH (n:entityType) WHERE <where> [DETACH DELETE n] RETURN n.id, n.name
executeBulkDeletion(g, entityType, where, dryRun) ==
  LET matched == {n \in g.nodes[entityType] : Matches(n, where)}
  IN [graph |-> IF Deletes(dryRun) THEN DetachDelete(g, entityType, matched) ELSE g,
      entities |-> EntityRows(entityType, matched),
      count |-> Cardinality(matched)]

\* MATCH (t:Tag) [DETACH DELETE t] RETURN t.id, t.name
handleTagDeletion(g, dryRun) ==
  [graph |-> IF Deletes(dryRun) THEN DetachDelete(g, "Tag", g.nodes["Tag"]) ELSE g,
   entities |-> EntityRows("Tag", g.nodes["Tag"]),
   count |-> Cardinality(g.nodes["Tag"]),
   threw |-> FALSE]

RECURSIVE processEntityTypes(_, _, _, _, _)
\* for (const type of entityTypes) { ... executeBulkDeletion(type, where) ... }
processEntityTypes(g, entityTypes, where, dryRun, succeeding) ==
  IF entityTypes = << >>
    THEN [graph |-> g, entities |-> {}, count |-> 0, threw |-> FALSE]
    ELSE IF Head(entityTypes) = "Tag"
      THEN processEntityTypes(g, Tail(entityTypes), where, dryRun, succeeding)
      ELSE IF succeeding = 0
        THEN [graph |-> g, entities |-> {}, count |-> 0, threw |-> TRUE]
        ELSE LET one == executeBulkDeletion(g, Head(entityTypes), where, dryRun)
                 rest == processEntityTypes(one.graph, Tail(entityTypes), where,
                                            dryRun, succeeding - 1)
             IN [graph |-> rest.graph,
                 entities |-> one.entities \cup rest.entities,
                 count |-> one.count + rest.count,
                 threw |-> rest.threw]

\* where n.repository = $repositoryName AND n.branch = $branch
processRepositoryScopedEntities(g, entityTypes, repositoryName, branch, dryRun, succeeding) ==
  processEntityTypes(g, entityTypes,
                     [repository |-> repositoryName, branch |-> branch],
                     dryRun, succeeding)

ScopedEntityTypes == <<"Component", "Decision", "Rule", "File", "Context">>

BulkResult(op, args, result) ==
  IF result.threw
    THEN Threw(op, args)
    ELSE Returned(op, args, [count |-> result.count, entities |-> result.entities,
                             warnings |-> {}])

\* The orchestration behind bulkDeleteByType: the tag type deletes the
\* tags, every other type (and 'all') deletes scoped entities of (repository,
\* branch) and leaves the tags alone.
bulkDeleteByType(repositoryName, branch, entityType, dryRun, succeeding) ==
  LET args == [repositoryName |-> repositoryName, branch |-> branch,
               entityType |-> entityType, dryRun |-> dryRun]
      result ==
        IF entityType = "Tag"
          THEN (IF succeeding = 0
                  THEN [graph |-> CurrentGraph, entities |-> {}, count |-> 0,
                        threw |-> TRUE]
                  ELSE handleTagDeletion(CurrentGraph, dryRun))
          ELSE processRepositoryScopedEntities(
                 CurrentGraph,
                 IF entityType = "all" THEN ScopedEntityTypes ELSE <<entityType>>,
                 repositoryName, branch, dryRun, succeeding)
  IN /\ Install(result.graph)
     /\ ret' = BulkResult("bulkDeleteByType", args, result)
     /\ UNCHANGED <<regVars, srvVars>>

\* The orchestration behind bulkDeleteByBranch: every scoped type of
\* (repository, targetBranch).
bulkDeleteByBranch(repositoryName, targetBranch, dryRun, succeeding) ==
  LET args == [repositoryName |-> repositoryName, branch |-> targetBranch,
               dryRun |-> dryRun]
      result == processRepositoryScopedEntities(CurrentGraph, ScopedEntityTypes,
                                                repositoryName, targetBranch,
                                                dryRun, succeeding)
  IN /\ Install(result.graph)
     /\ ret' = BulkResult("bulkDeleteByBranch", args, result)
     /\ UNCHANGED <<regVars, srvVars>>

\* nodes n of MATCH (t:Tag)-[:TAGGED_WITH]-(n) WHERE t.id = $tagId (either
\* direction of the relationship)
TaggedWith(g, tagId) ==
  {e.from : e \in {x \in DOMAIN g.rels :
                     x.type = "TAGGED_WITH" /\ x.to = [label |-> "Tag", key |-> tagId]}}
    \cup
  {e.to : e \in {x \in DOMAIN g.rels :
                   x.type = "TAGGED_WITH" /\ x.from = [label |-> "Tag", key |-> tagId]}}

RECURSIVE DeleteTagged(_, _, _)
DeleteTagged(g, labels, matchedOf) ==
  IF labels = {}
    THEN g
    ELSE LET l == CHOOSE x \in labels : TRUE
         IN DeleteTagged(DetachDelete(g, l, matchedOf[l]), labels \ {l}, matchedOf)

\* EntityService.bulkDeleteByTag; options.force is accepted and never read
bulkDeleteByTag(repositoryName, branch, tagId, dryRun, force, succeeding) ==
  LET args == [repositoryName |-> repositoryName, branch |-> branch,
               tagId |-> tagId, dryRun |-> dryRun, force |-> force]
      g == CurrentGraph
      tagCount == Cardinality({t \in g.nodes["Tag"] : Matches(t, [id |-> tagId])})
      tagged == TaggedWith(g, tagId)
      matchedOf == [l \in Labels |->
                      {n \in g.nodes[l] :
                         /\ NodeRef(l, n) \in tagged
                         /\ Matches(n, [repository |-> repositoryName,
                                        branch |-> branch])}]
      rows == UNION {EntityRows(l, matchedOf[l]) : l \in Labels}
      count == Cardinality(UNION {{NodeRef(l, n) : n \in matchedOf[l]} : l \in Labels})
  IN IF succeeding = 0 \/ (succeeding = 1 /\ tagCount # 0)
       THEN /\ ret' = Threw("bulkDeleteByTag", args)
            /\ UNCHANGED graphVars
            /\ UNCHANGED <<regVars, srvVars>>
       ELSE IF tagCount = 0
         THEN /\ ret' = Returned("bulkDeleteByTag", args,
                                 [count |-> 0, entities |-> {},
                                  warnings |-> {"Tag not found"}])
              /\ UNCHANGED graphVars
              /\ UNCHANGED <<regVars, srvVars>>
         ELSE /\ Install(IF Deletes(dryRun)
                           THEN DeleteTagged(g, Labels, matchedOf)
                           ELSE g)
              /\ ret' = Returned("bulkDeleteByTag", args,
                                 [count |-> count, entities |-> rows,
                                  warnings |-> {}])
              /\ UNCHANGED <<regVars, srvVars>>

\* MATCH (r:Repository {name: $repositoryName}) DELETE r: a node that still
\* has relationships cannot be deleted without DETACH and the query throws
RepositoryDelete(g, repositoryName) ==
  LET matched == {r \in g.nodes["Repository"] : Matches(r, [name |-> repositoryName])}
      refs == {NodeRef("Repository", r) : r \in matched}
      attached == \E e \in DOMAIN g.rels : e.from \in refs \/ e.to \in refs
  IN [graph |-> IF attached THEN g ELSE DetachDelete(g, "Repository", matched),
      entities |-> IF attached THEN {} ELSE EntityRows("Repository", matched),
      count |-> IF attached THEN 0 ELSE Cardinality(matched),
      threw |-> attached]

\* EntityService.bulkDeleteByRepository; options.force is accepted and never
\* read
bulkDeleteByRepository(repositoryName, dryRun, force, succeeding) ==
  LET args == [repositoryName |-> repositoryName, dryRun |-> dryRun,
               force |-> force]
      scoped == processEntityTypes(CurrentGraph, ScopedEntityTypes,
                                   [repository |-> repositoryName], dryRun,
                                   succeeding)
      repos == IF succeeding <= Len(ScopedEntityTypes)
                 THEN [graph |-> scoped.graph, entities |-> {}, count |-> 0,
                       threw |-> TRUE]
                 ELSE RepositoryDelete(scoped.graph, repositoryName)
      result == IF scoped.threw \/ ~Deletes(dryRun)
                  THEN scoped
                  ELSE [graph |-> repos.graph,
                        entities |-> scoped.entities \cup repos.entities,
                        count |-> scoped.count + repos.count,
                        threw |-> repos.threw]
  IN /\ Install(result.graph)
     /\ ret' = BulkResult("bulkDeleteByRepository", args, result)
     /\ UNCHANGED <<regVars, srvVars>>

(***************************************************************************)
(* Specifications of the graph store.                                      *)
(***************************************************************************)
MaxQueries == Len(ScopedEntityTypes) + 1
DefaultName == "n1"

\* files, components, tags and their associations
NextFiles ==
  \/ \E sc \in Scopes, id \in ComponentIds :
       upsertComponent(sc[1], sc[2], id, DefaultName)
  \/ \E sc \in Scopes, id \in FileIds, name \in Names, engineFails \in BOOLEAN :
       addFileOp(sc[1], sc[2], id, name, engineFails)
  \/ \E sc \in Scopes, id \in FileIds, name \in Names, engineFails \in BOOLEAN :
       addFileOp_part004(sc[1], sc[2], id, name, engineFails)
  \/ \E sc \in Scopes, c \in ComponentIds, f \in FileIds, engineFails \in BOOLEAN :
       associateFileWithComponentOp(sc[1], sc[2], c, f, engineFails)
  \/ \E id \in TagIds, engineFails \in BOOLEAN :
       addTagOp(id, DefaultName, engineFails)
  \/ \E sc \in Scopes, itemType \in ItemTypes,
        itemId \in ComponentIds \cup DecisionIds \cup FileIds,
        tagId \in TagIds, engineFails \in BOOLEAN :
       tagItemOp(sc[1], sc[2], itemId, itemType, tagId, engineFails)
  \/ \E sc \in Scopes, id \in DecisionIds :
       upsertDecision(sc[1], sc[2], id, DefaultName, Undefined, FirstDay, FALSE)

SpecFiles == Init /\ [][NextFiles]_vars

\* decisions and metadata
NextEntities ==
  \/ \E sc \in Scopes, id \in DecisionIds, status \in Statuses \cup {Undefined},
        engineFails \in BOOLEAN :
       upsertDecision(sc[1], sc[2], id, DefaultName, status, FirstDay, engineFails)
  \/ \E repository \in {EmptyString} \cup RepositoryNames \cup RepositoryIds,
        branch \in Branches, id \in MetadataIds, engineFails \in BOOLEAN :
       upsertMetadata(repository, branch, id, DefaultName, engineFails)

SpecEntities == Init /\ [][NextEntities]_vars

\* a populated graph and the bulk deletes of one branch; the other branch
\* holds the entities a scoped delete has to leave alone
BulkBranch == <<"main">>
BulkRepositoryArgs ==
  RepositoryNames \cup {RepositoryNodeId(n, BulkBranch) : n \in RepositoryNames}
FailurePoints == {0, 3, MaxQueries}

NextBulk ==
  \/ \E sc \in Scopes, id \in ComponentIds :
       upsertComponent(sc[1], sc[2], id, DefaultName)
  \/ \E sc \in Scopes, id \in FileIds :
       addFileOp(sc[1], sc[2], id, DefaultName, FALSE)
  \/ \E sc \in Scopes, c \in ComponentIds, f \in FileIds :
       associateFileWithComponentOp(sc[1], sc[2], c, f, FALSE)
  \/ \E id \in TagIds : addTagOp(id, DefaultName, FALSE)
  \/ \E sc \in Scopes, itemId \in FileIds, tagId \in TagIds :
       tagItemOp(sc[1], sc[2], itemId, "File", tagId, FALSE)
  \/ \E name \in RepositoryNames, branch \in Branches \cup {EmptyString} :
       RepositoryCreate(name, branch)
  \/ \E r \in BulkRepositoryArgs, t \in {"File", "Tag", "all"},
        dryRun \in BOOLEAN, succeeding \in FailurePoints :
       bulkDeleteByType(r, BulkBranch, t, dryRun, succeeding)
  \/ \E r \in BulkRepositoryArgs, dryRun \in BOOLEAN, succeeding \in FailurePoints :
       bulkDeleteByBranch(r, BulkBranch, dryRun, succeeding)
  \/ \E r \in BulkRepositoryArgs, tagId \in TagIds, dryRun \in BOOLEAN,
        succeeding \in FailurePoints :
       bulkDeleteByTag(r, BulkBranch, tagId, dryRun, FALSE, succeeding)
  \/ \E r \in BulkRepositoryArgs, dryRun \in BOOLEAN, succeeding \in FailurePoints :
       bulkDeleteByRepository(r, dryRun, FALSE, succeeding)

SpecBulk == Init /\ [][NextBulk]_vars

\* "Require explicit confirmation for bulk operations affecting more than 10
\* entities"
SafetyThreshold == 10
MaxFiles == SafetyThreshold + 1

\* the k-th file id of a repository with many files
NumberedFileId(k) == [i \in 1..k |-> "f"]

\* a repository that grows past the safety threshold, and the bulk deletes
\* EntityService implements itself
NextThreshold ==
  \/ \E sc \in {<<RepositoryNodeId(n, BulkBranch), BulkBranch>> : n \in RepositoryNames} :
       /\ Cardinality(fileNodes) < MaxFiles
       /\ addFileOp(sc[1], sc[2], NumberedFileId(Cardinality(fileNodes) + 1),
                    DefaultName, FALSE)
  \/ \E id \in TagIds : addTagOp(id, DefaultName, FALSE)
  \/ \E name \in RepositoryNames : RepositoryCreate(name, BulkBranch)
  \/ \E r \in BulkRepositoryArgs, tagId \in TagIds, dryRun \in BOOLEAN,
        force \in BOOLEAN, succeeding \in FailurePoints :
       bulkDeleteByTag(r, BulkBranch, tagId, dryRun, force, succeeding)
  \/ \E r \in BulkRepositoryArgs, dryRun \in BOOLEAN, force \in BOOLEAN,
        succeeding \in FailurePoints :
       bulkDeleteByRepository(r, dryRun, force, succeeding)

SpecThreshold == Init /\ [][NextThreshold]_vars

\* the entities of a repository on both branches and its bulk delete
NextRepositoryDelete ==
  \/ \E sc \in Scopes, id \in FileIds : addFileOp(sc[1], sc[2], id, DefaultName, FALSE)
  \/ \E sc \in Scopes, id \in DecisionIds :
       upsertDecision(sc[1], sc[2], id, DefaultName, Undefined, FirstDay, FALSE)
  \/ \E sc \in Scopes, id \in MetadataIds :
       upsertMetadata(sc[1], sc[2], id, DefaultName, FALSE)
  \/ \E id \in TagIds : addTagOp(id, DefaultName, FALSE)
  \/ \E name \in RepositoryNames, branch \in Branches : RepositoryCreate(name, branch)
  \/ \E r \in RepositoryNames \cup RepositoryIds, dryRun \in BOOLEAN,
        succeeding \in FailurePoints :
       bulkDeleteByRepository(r, dryRun, FALSE, succeeding)

SpecRepositoryDelete == Init /\ [][NextRepositoryDelete]_vars

NextRegistry ==
  \/ \E c \in Callers : GetInstance(c)
  \/ InitializeSucceeds
  \/ InitializeFails
  \/ \E c \in Callers : ResumeInstance(c)
  \/ \E c \in Callers, r \in Roots : GetKuzuClient(c, r)
  \/ \E r \in Roots : ClientInitSucceeds(r)
  \/ \E r \in Roots : ClientInitFails(r)
  \/ \E c \in Callers : ResumeClient(c)

SpecRegistry == Init /\ [][NextRegistry]_vars

(***************************************************************************)
(* Part C.  The MCP servers: the tools/call dispatcher of the stdio and    *)
(* the HTTP-stream server, and ToolExecutionService.executeTool.           *)
(***************************************************************************)
Transports == {"stdio", "http"}
Connections == {"c1", "c2"}

\* MEMORY_BANK_MCP_TOOLS (the tools that are listed) and toolHandlers (the
\* tools that have a handler); "listed-only" is listed without a handler and
\* "unknown" is neither.
InitTool == "init-memory-bank"
ListedTools == {InitTool, "introspect", "entity", "listed-only"}
HandledTools == {InitTool, "introspect", "entity"}
ToolNames == ListedTools \cup {"unknown"}

\* What a handler does with its call.  "value": the operation succeeded and
\* the handler returns its result object; "null": it succeeded and returns
\* null; "throws": the operation failed and the handler rethrows;
\* "bodyAfterFailure": the operation failed, the handler caught the error and
\* returns a result object (introspectHandler's catch); "nullAfterFailure":
\* the operation failed, reported the error through its progress handler and
\* returned null (ComponentDependenciesOperation.execute's catch).
HandlerOutcomes(toolName) ==
  CASE toolName = InitTool -> {"value", "throws"}
    [] toolName = "introspect" -> {"value", "throws", "bodyAfterFailure"}
    [] toolName = "entity" -> {"value", "null", "throws", "nullAfterFailure"}
    [] OTHER -> {"none"}
OperationFailed(outcome) ==
  outcome \in {"throws", "bodyAfterFailure", "nullAfterFailure"}

\* toolResult of executeTool: "threw" is executeTool itself rejecting
\* (ensureMemoryService runs before its try block).
executeTool(toolName, serviceAvailable, outcome) ==
  IF ~serviceAvailable THEN "threw"
  ELSE IF toolName \notin HandledTools THEN "error"
  ELSE CASE outcome \in {"null", "nullAfterFailure"} -> "null"
         [] outcome = "throws" -> "error"
         [] OTHER -> "object"

HandlerRuns(toolName, serviceAvailable) ==
  serviceAvailable /\ toolName \in HandledTools

\* The response the request handler ends with: it either returns an envelope
\* or throws (the rejection leaves the handler without an envelope).
Envelope(isError, structuredContent, text) ==
  [kind |-> "envelope", isError |-> isError,
   structuredContent |-> structuredContent, text |-> text]
Thrown(text) ==
  [kind |-> "thrown", isError |-> FALSE, structuredContent |-> FALSE,
   text |-> text]

\* the try block of the request handler, shared by both servers
EnvelopeOf(toolResult) ==
  CASE toolResult = "threw" -> Envelope(TRUE, FALSE, "Error executing tool")
    [] toolResult = "error" -> Envelope(TRUE, FALSE, "toolResult.error")
    [] toolResult = "null" ->
         Envelope(FALSE, FALSE, "Tool executed successfully with no specific result content.")
    [] OTHER -> Envelope(FALSE, TRUE, "toolResult.message")

\* mcp-stdio-server.ts: the tool must be listed, then clientProjectRoot must
\* be among the arguments; both checks throw before the try block.
StdioCallTool(toolName, hasRoot, serviceAvailable, outcome) ==
  IF toolName \notin ListedTools THEN Thrown("Tool not found.")
  ELSE IF ~hasRoot
    THEN Thrown(IF toolName = InitTool
                  THEN "requires clientProjectRoot argument."
                  ELSE "clientProjectRoot context not established")
  ELSE EnvelopeOf(executeTool(toolName, serviceAvailable, outcome))

\* mcp-httpstream-server.ts: no look-up of the tool among the listed ones.
HttpCallTool(toolName, hasRoot, serviceAvailable, outcome) ==
  IF ~hasRoot
    THEN Thrown(IF toolName = InitTool
                  THEN "requires clientProjectRoot argument."
                  ELSE "clientProjectRoot context not established")
  ELSE EnvelopeOf(executeTool(toolName, serviceAvailable, outcome))

ReachesExecuteTool(transport, toolName, hasRoot) ==
  /\ hasRoot
  /\ transport = "stdio" => toolName \in ListedTools

\* The store operation of the "entity" handler: a component upsert in the
\* scope named by the arguments.
EntityHandlerWrites(repositoryId, branchName, id, name) ==
  LET gid == formatGraphUniqueId(Split(repositoryId)[1], branchName, id)
      matched == {c \in componentNodes : Matches(c, [graph_unique_id |-> gid])}
      node == [graph_unique_id |-> gid, id |-> id, name |-> name,
               repository |-> repositoryId, branch |-> branchName]
  IN (componentNodes \ matched) \cup {node}

\* One tools/call request, from its arrival to the end of the request handler.
CallTool(transport, connection, toolName, hasRoot, serviceAvailable, outcome, branchName, name) ==
  LET result == IF transport = "stdio"
                  THEN StdioCallTool(toolName, hasRoot, serviceAvailable, outcome)
                  ELSE HttpCallTool(toolName, hasRoot, serviceAvailable, outcome)
      invoked == /\ ReachesExecuteTool(transport, toolName, hasRoot)
                 /\ HandlerRuns(toolName, serviceAvailable)
  IN /\ response' = [transport |-> transport, connection |-> connection,
                     toolName |-> toolName, hasRoot |-> hasRoot,
                     serviceAvailable |-> serviceAvailable,
                     outcome |-> IF invoked THEN outcome ELSE "none",
                     kind |-> result.kind, isError |-> result.isError,
                     structuredContent |-> result.structuredContent,
                     text |-> result.text, handlerInvoked |-> invoked]
     /\ initDone' = IF invoked /\ toolName = InitTool /\ outcome = "value"
                      THEN initDone \cup {connection}
                      ELSE initDone
     /\ componentNodes' =
          IF invoked /\ toolName = "entity" /\ outcome \in {"value", "null"}
            THEN EntityHandlerWrites(<<"r", Colon, "main">>, branchName, <<"c1">>, name)
            ELSE componentNodes
     /\ UNCHANGED <<fileNodes, tagNodes, decisionNodes, metadataNodes,
                    repositoryNodes, rels, ret, regVars, httpVars, progVars,
                    auxVars>>

\* the dispatcher of both servers
NextDispatcher ==
  \E transport \in Transports, connection \in Connections, toolName \in ToolNames,
     hasRoot \in BOOLEAN, serviceAvailable \in BOOLEAN,
     branchName \in Branches, name \in Names :
    \E outcome \in HandlerOutcomes(toolName) :
      CallTool(transport, connection, toolName, hasRoot, serviceAvailable, outcome, branchName, name)

SpecDispatcher == Init /\ [][NextDispatcher]_vars

(***************************************************************************)
(* The HTTP-stream server: the session table and the /mcp endpoints.       *)
(***************************************************************************)
MaxSessions == 3
SessionIds == {<<"uuid", k>> : k \in 1..MaxSessions}

\* a syntactically fine session id that the server never generated
ForgedId == <<"uuid", 0>>
\* the session table is an object literal: the name of a property it inherits
\* from Object.prototype
InheritedKey == <<"constructor", 0>>
NoHeader == <<"none", 0>>
HeaderValues == {NoHeader, ForgedId, InheritedKey} \cup SessionIds

\* transports[sessionId] is truthy
TableLookup(sessionId) == sessionId \in transports \/ sessionId = InheritedKey

\* statuses of a request whose handler threw: the error handler's 500, or no
\* response at all when the rejection of the handler is not caught
ThrownStatuses == {"500", "no response"}

HttpOutcome(method, header, isInitialize, status, reached, created, closed) ==
  [method |-> method, header |-> header, isInitialize |-> isInitialize,
   status |-> status, reachedTransport |-> reached, created |-> created,
   closed |-> closed]

\* transport.onclose: delete transports[transport.sessionId]
OnClose_KeepsEntry(sessionId) == transports
OnClose(sessionId) == transports \ {sessionId}

\* transport.handleRequest on something that is no transport: TypeError
HandleRequestThrows(method, header, isInitialize) ==
  /\ \E status \in ThrownStatuses :
       httpResponse' = HttpOutcome(method, header, isInitialize, status, FALSE,
                                   NoHeader, NoHeader)
  /\ UNCHANGED <<transports, issued>>

BadRequest(method, header, isInitialize) ==
  /\ httpResponse' = HttpOutcome(method, header, isInitialize, "400", FALSE,
                                 NoHeader, NoHeader)
  /\ UNCHANGED <<transports, issued>>

\* app.post('/mcp')
Post(header, isInitialize) ==
  /\ IF header # NoHeader /\ TableLookup(header)
       THEN IF header \in transports
              THEN /\ httpResponse' = HttpOutcome("POST", header, isInitialize,
                                                  "200", TRUE, NoHeader, NoHeader)
                   /\ UNCHANGED <<transports, issued>>
              ELSE HandleRequestThrows("POST", header, isInitialize)
       ELSE IF header = NoHeader /\ isInitialize
         THEN \E sessionId \in SessionIds \ issued :
                /\ transports' = transports \cup {sessionId}
                /\ issued' = issued \cup {sessionId}
                /\ httpResponse' = HttpOutcome("POST", header, isInitialize, "200",
                                               TRUE, sessionId, NoHeader)
         ELSE BadRequest("POST", header, isInitialize)
  /\ UNCHANGED <<regVars, graphVars, ret, dispVars, progVars, auxVars>>

\* handleSessionRequest, serving GET and DELETE; a DELETE that reaches its
\* transport terminates the session, which closes the transport
handleSessionRequest(method, header) ==
  /\ IF header = NoHeader \/ ~TableLookup(header)
       THEN BadRequest(method, header, FALSE)
       ELSE IF header \in transports
         THEN /\ transports' = IF method = "DELETE" THEN OnClose(header)
                                                   ELSE transports
              /\ httpResponse' = HttpOutcome(method, header, FALSE, "200", TRUE,
                                             NoHeader,
                                             IF method = "DELETE" THEN header
                                                                  ELSE NoHeader)
              /\ UNCHANGED issued
         ELSE HandleRequestThrows(method, header, FALSE)
  /\ UNCHANGED <<regVars, graphVars, ret, dispVars, progVars, auxVars>>

\* the transport of a session closes without a request (disconnect)
TransportClose(sessionId) ==
  /\ sessionId \in transports
  /\ transports' = OnClose(sessionId)
  /\ httpResponse' = HttpOutcome("close", sessionId, FALSE, "none", FALSE, NoHeader,
                                 sessionId)
  /\ UNCHANGED issued
  /\ UNCHANGED <<regVars, graphVars, ret, dispVars, progVars, auxVars>>

NextHttp ==
  \/ \E header \in HeaderValues, isInitialize \in BOOLEAN : Post(header, isInitialize)
  \/ \E method \in {"GET", "DELETE"}, header \in HeaderValues :
       handleSessionRequest(method, header)
  \/ \E sessionId \in SessionIds : TransportClose(sessionId)

SpecHttp == Init /\ [][NextHttp]_vars

(***************************************************************************)
(* Progress notifications of tool calls in flight.                         *)
(***************************************************************************)
RequestSlots == 1..MaxRequests
\* JSON-RPC request ids chosen by the client
RequestIds == 0..MaxRequestId

\* The context a handler gets: the one executeTool builds itself, whose
\* sendProgress forwards to progressHandler.progress, or the one built by
\* createAugmentedContext, whose sendProgress sends an SDK notification.
Contexts == {"executeTool", "createAugmentedContext"}

\* the progressHandler both request handlers pass is the SDK's sdkContext
\* (signal, sessionId, requestId, sendNotification, sendRequest): it has no
\* function named progress
ProgressHandlerHasProgress == FALSE

\* !progressToken
Falsy(requestId) == requestId = 0

Notification(progressToken, event) ==
  [progressToken |-> progressToken, event |-> event]

\* what one sendProgress call puts on the connection of its request
Sent(r, event, sendFails) ==
  IF r.context = "executeTool"
    THEN IF ProgressHandlerHasProgress
           THEN <<Notification(r.requestId, event)>>
           ELSE << >>
    ELSE IF Falsy(r.requestId) \/ sendFails
           THEN << >>
           ELSE <<Notification(r.requestId, event)>>

\* a tools/call request arrives and its handler starts
BeginRequest(slot, connection, requestId, context) ==
  /\ requests[slot].state = "idle"
  /\ \A other \in RequestSlots :
       requests[other].state # "idle" =>
         ~(requests[other].connection = connection /\
           requests[other].requestId = requestId)
  /\ requests' = [requests EXCEPT ![slot] =
                    [state |-> "running", requestId |-> requestId,
                     connection |-> connection, context |-> context,
                     emitted |-> 0, connectionLost |-> FALSE]]
  /\ UNCHANGED wire
  /\ UNCHANGED <<regVars, graphVars, ret, dispVars, httpVars, auxVars>>

\* the handler of a running request emits its next progress event
sendProgress(slot, sendFails) ==
  LET r == requests[slot]
      event == r.emitted + 1
  IN /\ r.state = "running"
     /\ r.emitted < MaxEvents
     /\ sendFails => r.context = "createAugmentedContext" /\ ~Falsy(r.requestId)
     /\ requests' = [requests EXCEPT ![slot].emitted = event,
                                     ![slot].connectionLost = @ \/ sendFails]
     /\ wire' = [wire EXCEPT ![r.connection] = @ \o Sent(r, event, sendFails)]
     /\ UNCHANGED <<regVars, graphVars, ret, dispVars, httpVars, auxVars>>

\* the handler returns
EndRequest(slot) ==
  /\ requests[slot].state = "running"
  /\ requests' = [requests EXCEPT ![slot].state = "done"]
  /\ UNCHANGED wire
  /\ UNCHANGED <<regVars, graphVars, ret, dispVars, httpVars, auxVars>>

NextProgress ==
  \/ \E slot \in RequestSlots, connection \in Connections, requestId \in RequestIds,
        context \in Contexts :
       BeginRequest(slot, connection, requestId, context)
  \/ \E slot \in RequestSlots, sendFails \in BOOLEAN : sendProgress(slot, sendFails)
  \/ \E slot \in RequestSlots : EndRequest(slot)

SpecProgress == Init /\ [][NextProgress]_vars

(***************************************************************************)
(* Part D.  The bulk import handler (components).                          *)
(***************************************************************************)
ImportIds == {<<"c1">>, <<"c2">>}
ImportItems == UNION {[1..n -> ImportIds] : n \in 0..MaxItems}
ImportRepository == <<"r">>
ImportBranch == <<"main">>
ImportedName == "n1"

ProgressEvent(status, isFinal) == [status |-> status, isFinal |-> isFinal]

\* entity.getComponent: the component of the scope with that id, if any
getComponent(repository, branch, id) ==
  {c \in componentNodes :
     Matches(c, [graph_unique_id |-> formatGraphUniqueId(repository, branch, id)])}

\* catch (error) { failed++; errors.push({id, error}) }
RecordFailure_Uncounted(r, id) == [r EXCEPT !.errors = Append(@, id)]
RecordFailure(r, id) == [r EXCEPT !.failed = @ + 1, !.errors = Append(@, id)]

\* the position the loop takes up after the item at r.i
NextItem(r) ==
  [r EXCEPT !.processed = Append(@, r.i),
            !.i = r.i + 1,
            !.pc = IF r.i + 1 > Len(r.items) THEN "finish"
                   ELSE IF r.overwrite THEN "upsert" ELSE "check"]

\* "Update progress" at the end of an iteration
WithProgress(r) ==
  [r EXCEPT !.events = Append(@, ProgressEvent("in_progress", FALSE))]

\* bulkImportHandler up to the first item: validation and the first event
BeginImport(items, overwrite) ==
  /\ imp.state = "idle"
  /\ imp' = IF items = << >>
              THEN [imp EXCEPT !.state = "threw", !.items = items,
                               !.overwrite = overwrite, !.result = "error"]
              ELSE [imp EXCEPT !.state = "running", !.items = items,
                               !.overwrite = overwrite,
                               !.pc = IF overwrite THEN "upsert" ELSE "check",
                               !.events = <<ProgressEvent("in_progress", FALSE)>>]
  /\ UNCHANGED <<regVars, graphVars, ret, dispVars, httpVars, progVars, opVars>>

\* if (!overwrite) { existing = await getComponent(...); if (existing) {
\*   skipped++; continue } }
ImportCheck(engineFails) ==
  LET id == imp.items[imp.i]
  IN /\ imp.state = "running" /\ imp.pc = "check"
     /\ imp' = IF engineFails
                 THEN WithProgress(NextItem(RecordFailure(imp, id)))
               ELSE IF getComponent(ImportRepository, ImportBranch, id) # {}
                 THEN NextItem([imp EXCEPT !.skipped = @ + 1])
                 ELSE [imp EXCEPT !.pc = "upsert"]
     /\ UNCHANGED <<regVars, graphVars, ret, dispVars, httpVars, progVars, opVars>>

\* await upsertComponent(...); imported++; then the progress of the iteration
ImportUpsert(engineFails) ==
  LET id == imp.items[imp.i]
  IN /\ imp.state = "running" /\ imp.pc = "upsert"
     /\ IF engineFails
          THEN /\ imp' = WithProgress(NextItem(RecordFailure(imp, id)))
               /\ UNCHANGED componentNodes
          ELSE /\ imp' = WithProgress(NextItem([imp EXCEPT !.imported = @ + 1]))
               /\ componentNodes' =
                    EntityHandlerWrites(ImportRepository, ImportBranch, id,
                                        ImportedName)
     /\ UNCHANGED <<fileNodes, tagNodes, decisionNodes, metadataNodes,
                    repositoryNodes, rels, ret, regVars, dispVars, httpVars,
                    progVars, opVars>>

\* after the loop: the final event and the returned body
ImportComplete ==
  /\ imp.state = "running" /\ imp.pc = "finish"
  /\ imp' = [imp EXCEPT !.state = "done", !.pc = "none",
                        !.events = Append(@, ProgressEvent("complete", TRUE)),
                        !.result = "body"]
  /\ UNCHANGED <<regVars, graphVars, ret, dispVars, httpVars, progVars, opVars>>

\* the caller cancels the request: the signal of its context is aborted
CancelImport ==
  /\ imp.state = "running" /\ ~imp.cancelled
  /\ imp' = [imp EXCEPT !.cancelled = TRUE, !.cancelIndex = imp.i,
                        !.cancelEvents = Len(imp.events)]
  /\ UNCHANGED <<regVars, graphVars, ret, dispVars, httpVars, progVars, opVars>>

\* another request writes a component of the same scope
OtherRequestUpserts(id) ==
  /\ imp.state = "running"
  /\ componentNodes' = EntityHandlerWrites(ImportRepository, ImportBranch, id, "n2")
  /\ UNCHANGED <<fileNodes, tagNodes, decisionNodes, metadataNodes,
                 repositoryNodes, rels, ret, regVars, srvVars>>

\* the next request: a new import over the graph left by the last one
NextImportRequest ==
  /\ imp.state \in {"done", "threw"}
  /\ imp' = [state |-> "idle", overwrite |-> FALSE, items |-> << >>, i |-> 1,
             pc |-> "none", imported |-> 0, skipped |-> 0, failed |-> 0,
             errors |-> << >>, processed |-> << >>, events |-> << >>,
             cancelled |-> FALSE, cancelIndex |-> 0, cancelEvents |-> 0,
             result |-> "none"]
  /\ UNCHANGED <<regVars, graphVars, ret, dispVars, httpVars, progVars, opVars>>

NextImport ==
  \/ \E items \in ImportItems, overwrite \in BOOLEAN : BeginImport(items, overwrite)
  \/ \E engineFails \in BOOLEAN : ImportCheck(engineFails)
  \/ \E engineFails \in BOOLEAN : ImportUpsert(engineFails)
  \/ ImportComplete
  \/ CancelImport
  \/ \E id \in ImportIds : OtherRequestUpserts(id)
  \/ NextImportRequest

SpecImport == Init /\ [][NextImport]_vars

(***************************************************************************)
(* Part E.  Component dependencies.                                        *)
(***************************************************************************)
\* the components of one scope, in ascending order of their logical id
ComponentOrder == << <<"A">>, <<"B">>, <<"C">>, <<"D">> >>
DependencyIds == {ComponentOrder[k] : k \in 1..Len(ComponentOrder)}
ComponentRef(id) ==
  [label |-> "Component", key |-> formatGraphUniqueId(<<"r">>, <<"main">>, id)]

\* DEPENDS_ON relationships that upserts with depends_on may create: a chain
\* A -> B -> C -> D, the shortcuts A -> C and A -> D, and the cycle B -> A
DependsOnPairs == { << <<"A">>, <<"B">> >>, << <<"B">>, <<"C">> >>, << <<"C">>, <<"D">> >>, << <<"A">>, <<"C">> >>, << <<"A">>, <<"D">> >>, << <<"B">>, <<"A">> >> }

\* upsert of a component with depends_on: MERGE (c)-[:DEPENDS_ON]->(dep)
addDependsOn(from, to) ==
  /\ rels' = MergeEdges(rels, {Edge("DEPENDS_ON", ComponentRef(from), ComponentRef(to))})
  /\ ret' = Returned("addDependsOn", [id |-> from, depends_on |-> to],
                     [success |-> TRUE])
  /\ UNCHANGED <<fileNodes, componentNodes, tagNodes, decisionNodes, metadataNodes,
                 repositoryNodes, regVars, srvVars>>

DependsOn(from, to) ==
  Edge("DEPENDS_ON", ComponentRef(from), ComponentRef(to)) \in DOMAIN rels

SortById(ids) == SelectSeq(ComponentOrder, LAMBDA id : id \in ids)
Elements(seq) == {seq[k] : k \in 1..Len(seq)}

\* memoryService.getComponentDependencies(componentId): the components the
\* given one depends on directly
getComponentDependencies(componentId) ==
  SortById({to \in DependencyIds : DependsOn(componentId, to)})

\* for (const dep of firstLevelDeps) { nextLevelDeps = ...; newDeps = those
\* not yet in allDependencies; allDependencies = [...allDependencies, ...newDeps] }
RECURSIVE NextLevel(_, _)
NextLevel(firstLevelDeps, allDependencies) ==
  IF firstLevelDeps = << >> THEN allDependencies
  ELSE LET nextLevelDeps == getComponentDependencies(Head(firstLevelDeps))
           newDeps == SelectSeq(nextLevelDeps,
                                LAMBDA d : d \notin Elements(allDependencies))
       IN NextLevel(Tail(firstLevelDeps), allDependencies \o newDeps)

\* ComponentDependenciesOperation.execute without a progress handler
AllDependencies(componentId, depth) ==
  LET firstLevelDeps == getComponentDependencies(componentId)
  IN IF depth > 1 /\ Len(firstLevelDeps) > 0
       THEN NextLevel(firstLevelDeps, firstLevelDeps)
       ELSE firstLevelDeps

ComponentDependencies(componentId, depth) ==
  /\ ret' = Returned("ComponentDependencies",
                     [componentId |-> componentId, depth |-> depth],
                     [status |-> "complete",
                      dependencies |-> AllDependencies(componentId, depth)])
  /\ UNCHANGED <<graphVars, regVars, srvVars>>

NextDependencies ==
  \/ \E pair \in DependsOnPairs : addDependsOn(pair[1], pair[2])
  \/ \E componentId \in DependencyIds, depth \in 1..MaxDepth :
       ComponentDependencies(componentId, depth)

SpecDependencies == Init /\ [][NextDependencies]_vars

(***************************************************************************)
(* Decisions by date range.                                                *)
(***************************************************************************)
\* a property the node does not have reads as null, and a comparison with
\* null is not true
HasProperty(node, property) == property \in DOMAIN node

PartOf(d, repositoryNodeId) ==
  Edge("PART_OF", NodeRef("Decision", d),
       [label |-> "Repository", key |-> repositoryNodeId]) \in DOMAIN rels

\* MATCH (repo:Repository {id: $repositoryNodeId})<-[:PART_OF]-(d:Decision)
\* WHERE d.branch = $decisionBranch AND d.date >= date($startDate)
\*   AND d.date <= date($endDate)
DateRangeRows(repositoryNodeId, decisionBranch, startDate, endDate) ==
  {d \in decisionNodes :
     /\ \E repo \in repositoryNodes : repo.id = repositoryNodeId
     /\ PartOf(d, repositoryNodeId)
     /\ HasProperty(d, "branch") /\ d.branch = decisionBranch
     /\ HasProperty(d, "date") /\ d.date >= startDate /\ d.date <= endDate}

\* an engine error is caught and an empty list returned
getDecisionsByDateRange(repositoryNodeId, decisionBranch, startDate, endDate, engineFails) ==
  LET args == [repository |-> repositoryNodeId, branch |-> decisionBranch,
               startDate |-> startDate, endDate |-> endDate]
      rows == IF engineFails THEN {}
              ELSE DateRangeRows(repositoryNodeId, decisionBranch, startDate, endDate)
  IN /\ ret' = Returned("getDecisionsByDateRange", args,
                        [decisions |-> {d.graph_unique_id : d \in rows}])
     /\ UNCHANGED <<graphVars, regVars, srvVars>>

NextDateRange ==
  \/ \E sc \in Scopes, id \in DecisionIds, date \in Days :
       upsertDecision(sc[1], sc[2], id, DefaultName, Undefined, date, FALSE)
  \/ \E name \in RepositoryNames, branch \in Branches : RepositoryCreate(name, branch)
  \/ \E sc \in Scopes, startDate \in Days, endDate \in Days, engineFails \in BOOLEAN :
       getDecisionsByDateRange(sc[1], sc[2], startDate, endDate, engineFails)

SpecDateRange == Init /\ [][NextDateRange]_vars

(***************************************************************************)
(* Upsert timestamps: the created_at / updated_at properties of one node   *)
(* of each kind, as the MERGE statements of the four upserts set them.     *)
(* A timestamp is a clock reading (0 = the property was never set).        *)
(***************************************************************************)
EntityKinds == {"Tag", "File", "Metadata", "Decision"}
Readings == 1..MaxClock

\* MERGE (t:Tag {id}) ON CREATE SET ... t.created_at; ON MATCH SET name,
\* color, description only: a Tag has no updated_at
addTagOp_Merge(node, now) ==
  IF node.exists THEN node
  ELSE [exists |-> TRUE, created_at |-> now, updated_at |-> 0]

\* MERGE (f:File {id}) ON CREATE SET f.created_at, f.updated_at;
\* ON MATCH SET f.updated_at
addFileOp_Merge(node, now) ==
  IF node.exists THEN [node EXCEPT !.updated_at = now]
  ELSE [exists |-> TRUE, created_at |-> now, updated_at |-> now]

\* created_val is the caller's metadata.created_at, or Date.now() without
\* one; it is used ON CREATE only
upsertMetadata_Merge(node, now, created_at) ==
  IF node.exists THEN [node EXCEPT !.updated_at = now]
  ELSE [exists |-> TRUE,
        created_at |-> IF created_at = 0 THEN now ELSE created_at,
        updated_at |-> now]

\* ON CREATE SET d.created_at = $now, d.updated_at = $now;
\* ON MATCH SET d.updated_at = $now
upsertDecision_Merge(node, now) ==
  IF node.exists THEN [node EXCEPT !.updated_at = now]
  ELSE [exists |-> TRUE, created_at |-> now, updated_at |-> now]

Merge(kind, node, now, created_at) ==
  CASE kind = "Tag" -> addTagOp_Merge(node, now)
    [] kind = "File" -> addFileOp_Merge(node, now)
    [] kind = "Metadata" -> upsertMetadata_Merge(node, now, created_at)
    [] kind = "Decision" -> upsertDecision_Merge(node, now)

\* one upsert of the node of this kind; `now` is this call's new Date(),
\* which is not before the previous reading and may equal it
UpsertAt(kind, now, created_at) ==
  /\ now >= clock
  /\ clock' = now
  /\ stamps' = [stamps EXCEPT ![kind] = Merge(kind, @, now, created_at)]
  /\ ret' = Returned("upsert", [kind |-> kind, now |-> now, matched |-> stamps[kind].exists],
                     [created_at |-> stamps'[kind].created_at,
                      updated_at |-> stamps'[kind].updated_at])
  /\ UNCHANGED <<regVars, graphVars, dispVars, httpVars, progVars, imp, assoc, ruleNodes, exec>>

NextTimestamps ==
  \E kind \in EntityKinds, now \in Readings, created_at \in 0..MaxClock :
    UpsertAt(kind, now, IF kind = "Metadata" THEN created_at ELSE 0)

SpecTimestamps == Init /\ [][NextTimestamps]_vars

(***************************************************************************)
(* The associate handler.  Its source is not part of the tree; the model   *)
(* follows the handler's test suite: the parameter checks, the session     *)
(* check, the progress events and the rethrown service error.              *)
(* An id is modelled by its prefix.                                        *)
(***************************************************************************)
AssociationTypes == {"file-component", "tag-item", "unknown"}
EntityTypePrefix ==
  [Component |-> "comp-", Decision |-> "dec-", Rule |-> "rule-", File |-> "file-",
   Context |-> "ctx-"]

AssociateParams ==
  {[type |-> "file-component", fileId |-> f, componentId |-> c,
    itemId |-> "missing", tagId |-> "missing", entityType |-> "missing"] :
      f \in {"file-", "invalid", "missing"}, c \in {"comp-", "invalid", "missing"}}
  \cup
  {[type |-> "tag-item", fileId |-> "missing", componentId |-> "missing",
    itemId |-> i, tagId |-> t, entityType |-> e] :
      i \in {"comp-", "dec-", "missing"}, t \in {"tag-", "invalid", "missing"},
      e \in {"Component", "Decision", "InvalidType", "missing"}}
  \cup
  {[type |-> "unknown", fileId |-> "missing", componentId |-> "missing",
    itemId |-> "missing", tagId |-> "missing", entityType |-> "missing"]}

\* the parameter checks of the Validation tests
ValidAssociation(params) ==
  CASE params.type = "file-component" ->
         params.fileId = "file-" /\ params.componentId = "comp-"
    [] params.type = "tag-item" ->
         /\ params.itemId # "missing"
         /\ params.tagId = "tag-"
         /\ params.entityType \in DOMAIN EntityTypePrefix
         /\ params.itemId = EntityTypePrefix[params.entityType]
    [] OTHER -> FALSE

AssociateEvent(status, percent, isFinal) ==
  [kind |-> "sendProgress", status |-> status, percent |-> percent, isFinal |-> isFinal]
ServiceCalled(outcome) ==
  [kind |-> "service", status |-> outcome, percent |-> 0, isFinal |-> FALSE]

FinalEvent_NotFinal(outcome) ==
  AssociateEvent(IF outcome = "resolved" THEN "complete" ELSE "error", 100, FALSE)
\* { status: 'complete' | 'error', message, percent: 100, isFinal: true }
FinalEvent(outcome) ==
  AssociateEvent(IF outcome = "resolved" THEN "complete" ELSE "error", 100, TRUE)

\* the call arrives: parameter checks, session check, then the first event
\* { status: 'in_progress', message, percent: 50 }
AssociateBegin(params, hasSession) ==
  /\ assoc.pc = "idle"
  /\ assoc.served < MaxAssociations
  /\ assoc' = IF ~ValidAssociation(params)
                THEN [assoc EXCEPT !.pc = "done", !.params = params,
                                   !.result = "throws validation error"]
              ELSE IF ~hasSession
                THEN [assoc EXCEPT !.pc = "done", !.params = params,
                                   !.result = "throws No active session"]
              ELSE [assoc EXCEPT !.pc = "reported", !.params = params,
                                 !.passed = TRUE,
                                 !.trace = <<AssociateEvent("in_progress", 50, FALSE)>>]
  /\ UNCHANGED <<regVars, graphVars, ret, dispVars, httpVars, progVars, imp,
                 clock, stamps, ruleNodes, exec>>

\* entityService.associateFileWithComponent / tagItem resolves or rejects
AssociateService(outcome) ==
  /\ assoc.pc = "reported"
  /\ assoc' = [assoc EXCEPT !.pc = "called", !.service = outcome,
                            !.trace = Append(@, ServiceCalled(outcome))]
  /\ UNCHANGED <<regVars, graphVars, ret, dispVars, httpVars, progVars, imp,
                 clock, stamps, ruleNodes, exec>>

\* the final event; a service error is reported, then rethrown
AssociateEnd ==
  /\ assoc.pc = "called"
  /\ assoc' = [assoc EXCEPT !.pc = "done",
                            !.trace = Append(@, FinalEvent(assoc.service)),
                            !.result = IF assoc.service = "resolved"
                                         THEN "returns the association"
                                         ELSE "throws the service error"]
  /\ UNCHANGED <<regVars, graphVars, ret, dispVars, httpVars, progVars, imp,
                 clock, stamps, ruleNodes, exec>>

\* the next call starts from a fresh context
AssociateNext ==
  /\ assoc.pc = "done"
  /\ assoc' = [assoc EXCEPT !.pc = "idle", !.passed = FALSE, !.trace = << >>,
                            !.service = "none", !.result = "none",
                            !.served = @ + 1]
  /\ UNCHANGED <<regVars, graphVars, ret, dispVars, httpVars, progVars, imp,
                 clock, stamps, ruleNodes, exec>>

NextAssociate ==
  \/ \E params \in AssociateParams, hasSession \in BOOLEAN :
       AssociateBegin(params, hasSession)
  \/ \E outcome \in {"resolved", "rejected"} : AssociateService(outcome)
  \/ AssociateEnd
  \/ AssociateNext

SpecAssociate == Init /\ [][NextAssociate]_vars

(***************************************************************************)
(* Rules: EntityService.upsertRule, getRule and updateRule.                *)
(***************************************************************************)
RuleIds == {<<"rule-1">>}
RuleScope == <<RepositoryNodeId(<<"r">>, <<"main">>), <<"main">>>>
RuleFields == {"name", "content", "triggers", "status"}
RuleValues ==
  [name |-> {"n1", "n2"}, content |-> {"c1", "c2"}, triggers |-> {"t1", "t2"},
   status |-> {"active", "deprecated"}]

\* Partial<Rule>: a field that is not mentioned reads as undefined; content
\* and triggers may be given as null
RuleUpdates ==
  [name : RuleValues.name \cup {Undefined},
   content : RuleValues.content \cup {Undefined, Null},
   triggers : RuleValues.triggers \cup {Undefined, Null},
   status : RuleValues.status \cup {Undefined}]

RuleGraphUniqueId(id) == formatGraphUniqueId(<<"r">>, <<"main">>, id)

\* ruleRepo.findByIdAndBranch
RulesIn(nodes, id) == {r \in nodes : r.graph_unique_id = RuleGraphUniqueId(id)}
getRule(id) == RulesIn(ruleNodes, id)

\* a parameter that is undefined is bound as null
Bound(value) == IF value = Undefined THEN Null ELSE value

\* content: rule.content === null ? undefined : rule.content (same for
\* triggers), then the MERGE of upsertRuleOp: on match the mutable attributes
\* are set to the given values
upsertRuleNodes(id, rule) ==
  LET node == [id |-> id, graph_unique_id |-> RuleGraphUniqueId(id),
               name |-> Bound(rule.name), content |-> Bound(rule.content),
               triggers |-> Bound(rule.triggers), status |-> Bound(rule.status)]
  IN (ruleNodes \ getRule(id)) \cup {node}

upsertRule(id, rule) ==
  /\ ruleNodes' = upsertRuleNodes(id, rule)
  /\ ret' = Returned("upsertRule", [id |-> id, updates |-> rule],
                     [rules |-> getRule(id)'])
  /\ UNCHANGED <<regVars, graphVars, dispVars, httpVars, progVars, imp, clock,
                 stamps, assoc, exec>>

\* { ...existing, ...updates }
Spread(existing, updates) ==
  [f \in RuleFields |-> IF updates[f] = Undefined THEN existing[f] ELSE updates[f]]

\* updatedData = { ...existing, ...updates,
\*   content: updates.content === null ? undefined : updates.content,
\*   triggers: updates.triggers === null ? undefined : updates.triggers }
updatedData(existing, updates) ==
  [Spread(existing, updates) EXCEPT
     !.content = IF updates.content = Null THEN Undefined ELSE updates.content,
     !.triggers = IF updates.triggers = Null THEN Undefined ELSE updates.triggers]

updateRule(id, updates) ==
  LET existing == getRule(id)
      args == [id |-> id, updates |-> updates]
  IN /\ IF existing = {}
          THEN /\ ret' = Returned("updateRule", args, [rules |-> {}])
               /\ UNCHANGED ruleNodes
          ELSE /\ ruleNodes' = upsertRuleNodes(id, updatedData(CHOOSE r \in existing : TRUE,
                                                              updates))
               /\ ret' = Returned("updateRule", args, [rules |-> getRule(id)'])
     /\ UNCHANGED <<regVars, graphVars, dispVars, httpVars, progVars, imp, clock,
                    stamps, assoc, exec>>

NextRules ==
  \/ \E id \in RuleIds, name \in RuleValues.name, content \in RuleValues.content, triggers \in RuleValues.triggers, status \in RuleValues.status :
       upsertRule(id, [name |-> name, content |-> content, triggers |-> triggers,
                       status |-> status])
  \/ \E id \in RuleIds, updates \in RuleUpdates : updateRule(id, updates)

SpecRules == Init /\ [][NextRules]_vars

(***************************************************************************)
(* ComponentDependenciesOperation.execute with a progress handler: the     *)
(* calls it makes on the handler.  A call on the handler or on the service *)
(* may throw; the first one that throws inside the try block leads to the  *)
(* catch block.                                                            *)
(***************************************************************************)
HandlerCall(method, isFinal) == [method |-> method, isFinal |-> isFinal]
ServiceCall == HandlerCall("getComponentDependencies", FALSE)

\* progress before, the service call, progress after, for each first-level
\* dependency
RECURSIVE PerDependency(_)
PerDependency(firstLevelDeps) ==
  IF firstLevelDeps = << >> THEN << >>
  ELSE <<HandlerCall("progress", FALSE), ServiceCall, HandlerCall("progress", FALSE)>>
         \o PerDependency(Tail(firstLevelDeps))

\* the calls of the try block, in program order
TryCalls(componentId, depth) ==
  LET firstLevelDeps == getComponentDependencies(componentId)
  IN <<HandlerCall("progress", FALSE), ServiceCall, HandlerCall("progress", FALSE)>>
       \o (IF depth > 1 /\ Len(firstLevelDeps) > 0
             THEN PerDependency(firstLevelDeps) ELSE << >>)
       \o <<HandlerCall("progress", TRUE), HandlerCall("sendFinalResponse", FALSE)>>

\* the calls of the catch block: progress({..., isFinal: true}), then
\* sendFinalResponse(errorPayload, true)
CatchCalls == <<HandlerCall("progress", TRUE), HandlerCall("sendFinalResponse", FALSE)>>

OnHandler(calls) == SelectSeq(calls, LAMBDA c : c.method # "getComponentDependencies")
OnService(calls) == SelectSeq(calls, LAMBDA c : c.method = "getComponentDependencies")

\* with a handler: failAt is the position in the try block of the first call
\* that throws (0 = none), catchFailAt the one in the catch block
WithHandler(componentId, depth, failAt, catchFailAt) ==
  LET try == TryCalls(componentId, depth)
      made == IF failAt = 0 THEN try ELSE SubSeq(try, 1, failAt)
      caught == IF failAt = 0 THEN << >>
                ELSE IF catchFailAt = 0 THEN CatchCalls
                ELSE SubSeq(CatchCalls, 1, catchFailAt)
  IN [done |-> TRUE, valid |-> TRUE, hasHandler |-> TRUE,
      reportingFailed |-> (failAt # 0 /\ try[failAt].method # "getComponentDependencies")
                            \/ (failAt # 0 /\ catchFailAt # 0),
      trace |-> OnHandler(made \o caught),
      result |-> IF failAt # 0 /\ catchFailAt # 0 THEN "throws" ELSE "returns null"]

\* without a handler only the service calls are made
WithoutHandler(componentId, depth, failAt) ==
  [done |-> TRUE, valid |-> TRUE, hasHandler |-> FALSE, reportingFailed |-> FALSE,
   trace |-> << >>,
   result |-> IF failAt = 0 THEN "returns the result payload" ELSE "throws"]

\* if (!repositoryName || !componentId) return { error }
execute(repositoryName, componentId, depth, hasHandler, failAt, catchFailAt) ==
  /\ exec' =
       IF repositoryName = EmptyString \/ componentId = EmptyString
         THEN [done |-> TRUE, valid |-> FALSE, hasHandler |-> hasHandler,
               reportingFailed |-> FALSE, trace |-> << >>,
               result |-> "returns an error payload"]
       ELSE IF hasHandler
         THEN WithHandler(componentId, depth, failAt, catchFailAt)
         ELSE WithoutHandler(componentId, depth, failAt)
  /\ UNCHANGED <<regVars, graphVars, ret, dispVars, httpVars, progVars, imp, clock,
                 stamps, assoc, ruleNodes>>

NextExecute ==
  \/ \E pair \in DependsOnPairs : addDependsOn(pair[1], pair[2])
  \/ \E componentId \in DependencyIds, depth \in 1..MaxDepth, hasHandler \in BOOLEAN :
       \E failAt \in 0..Len(TryCalls(componentId, depth)), catchFailAt \in 0..Len(CatchCalls) :
         /\ failAt = 0 => catchFailAt = 0
         /\ ~hasHandler =>
              /\ catchFailAt = 0
              /\ failAt # 0 => TryCalls(componentId, depth)[failAt] = ServiceCall
         /\ execute(<<"r">>, componentId, depth, hasHandler, failAt, catchFailAt)
  \/ \E repositoryName \in {EmptyString, <<"r">>}, componentId \in {EmptyString}, hasHandler \in BOOLEAN :
       execute(repositoryName, componentId, 1, hasHandler, 0, 0)

SpecExecute == Init /\ [][NextExecute]_vars

(***************************************************************************)
(* Claims on the registry and the singleton.                               *)
(***************************************************************************)

ClientPromisesOf(r, states) ==
  {p \in ClientPromiseIds :
     clientPromises[p].root = r /\ clientPromises[p].state \in states}

\* C1: for every project root, concurrent getKuzuClient calls on a root with
\* no cached client share one store-client initialisation (at most one
\* initialisation of the root is pending or has succeeded, and every
\* initialisation beyond the first follows a failed one), every call that
\* returns a client returns the cached handle of its root, and no
\* initialisation is in flight once a client is cached.
C1_OneClientInitializationPerRoot ==
  \A r \in Roots :
    /\ Cardinality(ClientPromisesOf(r, {"pending", "fulfilled"})) <= 1
    /\ clientInitCalls[r] <= 1 + Cardinality(ClientPromisesOf(r, {"rejected"}))
    /\ ClientCached(r) => clientInit[r] = 0
    /\ \A x \in clientResults :
         (x.root = r /\ x.res.ok) => (ClientCached(r) /\ x.res.val = kuzuClients[r])

\* Two callers were suspended on the same client initialisation, which has
\* now succeeded as the only initialisation of that root.
C1_Witness ==
  \E r \in Roots :
    /\ clientInitCalls[r] = 1
    /\ ClientCached(r)
    /\ \A c \in Callers :
         /\ callerPc[c] = "awaitClient"
         /\ callerWait[c] = WaitPromise(kuzuClients[r])

\* C2: in every interleaving in which no initialisation has failed,
\* MemoryService.initialize has run at most once, exactly once when a call has
\* resolved, and every resolved getInstance call delivered the one published
\* instance.
C2_SingletonInitializedOnce ==
  initializeFailures = 0 =>
    /\ initializeCalls <= 1
    /\ \A x \in instanceResults :
         /\ x.res.ok
         /\ initializeCalls = 1
         /\ x.res.val = instance

\* Both callers called getInstance while the one initialisation was pending
\* and both have been resumed with the instance.
C2_Witness ==
  /\ initializeFailures = 0
  /\ instance # 0
  /\ instanceResults = {[promise |-> instance, res |-> Ok(instance)]}
  /\ \A c \in Callers : callerPc[c] = "ready" /\ callerHeld[c] = instance

InitFailed(p) ==
  promises[p].state \in {"fulfilled", "rejected"} /\ ~serviceContainer[p]

C3_AfterFailure ==
  /\ \A x \in instanceResults :
       (x.promise # 0 /\ InitFailed(x.promise)) => x.res = Err
  /\ \A p \in PromiseIds : InitFailed(p) => instance # p
  /\ instance # 0 => serviceContainer[instance]
  /\ initializationPromise # 0 => promises[initializationPromise].state = "pending"

C3_RetryStartsFresh ==
  ( /\ initializeFailures > 0
    /\ instance = 0
    /\ \A p \in PromiseIds : promises[p].state # "pending"
    /\ \E c \in Callers : callerPc[c] = "idle" /\ callerPc'[c] = "awaitInstance" )
  => /\ initializeCalls' = initializeCalls + 1
     /\ initializationPromise' = initializeCalls'
     /\ promises'[initializeCalls'].state = "pending"

\* C3: when an in-flight MemoryService initialisation fails, every caller
\* that waited on it is resumed with the error, the failed instance is never
\* published, the pending-initialisation marker never outlives its promise,
\* and the next getInstance call starts a fresh initialisation.
C3_FailedInitializationIsRetried == []C3_AfterFailure /\ [][C3_RetryStartsFresh]_vars

\* A first initialisation failed, a waiter got the error, a retry started a
\* second initialisation, which succeeded and was delivered.
C3_Witness ==
  /\ initializeFailures = 1
  /\ instance = 2
  /\ [promise |-> 1, res |-> Err] \in instanceResults
  /\ [promise |-> 2, res |-> Ok(2)] \in instanceResults

(***************************************************************************)
(* Claims on the graph store.                                              *)
(***************************************************************************)

\* C4: when a File with id i exists on (r, b1) and a File with the same id
\* is upserted on (r, b2), b2 # b1, and the upsert returns, the node of
\* (r, b1) is still there unmodified and a distinct File node of (r, b2)
\* with id i exists.
C4_BranchIsolationOfFileUpserts ==
  [][\A f \in fileNodes :
       ( /\ ret'.op \in {"addFileOp", "addFileOp_part004"}
         /\ ret'.outcome = "returned"
         /\ ret'.args.id = f.id
         /\ Split(ret'.args.repositoryId)[1] = Split(f.repository)[1]
         /\ ret'.args.branchName # f.branch )
       => /\ f \in fileNodes'
          /\ \E g \in fileNodes' :
               /\ g # f
               /\ g.id = f.id
               /\ g.repository = ret'.args.repositoryId
               /\ g.branch = ret'.args.branchName]_vars

HasOwnScope(node) == {"repository", "branch", "id"} \subseteq DOMAIN node

GidOfOwnScope(node) ==
  /\ HasOwnScope(node)
  /\ node.graph_unique_id = formatGraphUniqueId(node.repository, node.branch, node.id)

\* C5: every Metadata node in the graph and every Decision returned by
\* upsertDecision has graph_unique_id = repository ":" branch ":" id, with
\* repository and branch the entity's own properties.
C5_GraphUniqueIdOfOwnScope ==
  /\ \A m \in metadataNodes : GidOfOwnScope(m)
  /\ (ret.op = "upsertDecision" /\ ret.outcome = "returned") => GidOfOwnScope(ret.value)

\* an endpoint of the label with the logical id that was written on
\* (repositoryId, branch)
ExistsInScope(label, repositoryId, branch, id) ==
  \E n \in NodesOf(label) :
    /\ n.id = id
    /\ IF {"repository", "branch"} \subseteq DOMAIN n
         THEN n.repository = repositoryId /\ n.branch = branch
         ELSE n.graph_unique_id =
                formatGraphUniqueId(Split(repositoryId)[1], branch, id)

ScopedRef(label, repositoryId, branch, id) ==
  [label |-> label,
   key |-> IF label = "File"
             THEN id
             ELSE formatGraphUniqueId(Split(repositoryId)[1], branch, id)]

TagRef(tagId) == [label |-> "Tag", key |-> tagId]

\* endpoints and edge of the association call recorded in r
BothEndpointsExist(r) ==
  IF r.op = "tagItemOp"
    THEN /\ ExistsInScope(r.args.itemType, r.args.repositoryId, r.args.branchName,
                          r.args.itemId)
         /\ \E t \in tagNodes : t.id = r.args.tagId
    ELSE /\ ExistsInScope("Component", r.args.repositoryId, r.args.branchName,
                          r.args.componentId)
         /\ ExistsInScope("File", r.args.repositoryId, r.args.branchName,
                          r.args.fileId)

EdgeOfCall(r) ==
  IF r.op = "tagItemOp"
    THEN Edge("IS_TAGGED_WITH",
              ScopedRef(r.args.itemType, r.args.repositoryId, r.args.branchName,
                        r.args.itemId),
              TagRef(r.args.tagId))
    ELSE Edge("CONTAINS_FILE",
              ScopedRef("Component", r.args.repositoryId, r.args.branchName,
                        r.args.componentId),
              ScopedRef("File", r.args.repositoryId, r.args.branchName,
                        r.args.fileId))

AssociationReturned(r) ==
  /\ r.op \in {"tagItemOp", "associateFileWithComponentOp"}
  /\ r.outcome = "returned"

\* C6: an association call that returns gives true exactly when both
\* endpoints exist in the scope of the call, the edge then exists; when an
\* endpoint is absent it gives false and the graph is unchanged.
C6_AssociationResult ==
  [][AssociationReturned(ret')
       => /\ ret'.value.success = BothEndpointsExist(ret')
          /\ BothEndpointsExist(ret') => EdgeOfCall(ret') \in DOMAIN rels'
          /\ ~BothEndpointsExist(ret') => UNCHANGED graphVars]_vars

\* C7: after an association call on existing endpoints exactly one edge
\* joins the two nodes, and repeating the call leaves the graph as it was.
C7_AssociationIdempotent ==
  [][(AssociationReturned(ret') /\ BothEndpointsExist(ret'))
       => /\ EdgeOfCall(ret') \in DOMAIN rels'
          /\ rels'[EdgeOfCall(ret')] = 1
          /\ (AssociationReturned(ret) /\ ret.op = ret'.op /\ ret.args = ret'.args)
               => UNCHANGED graphVars]_vars

\* C8: every CONTAINS_FILE edge joins a Component and a File with equal
\* repository and branch properties.
C8_NoCrossBranchContainsFile ==
  \A e \in DOMAIN rels :
    e.type = "CONTAINS_FILE"
      => \E c \in componentNodes, f \in fileNodes :
           /\ NodeRef("Component", c) = e.from
           /\ NodeRef("File", f) = e.to
           /\ c.repository = f.repository
           /\ c.branch = f.branch

AllowedStatusTransitions ==
  {<<"proposed", "approved">>, <<"approved", "implemented">>,
   <<"approved", "failed">>}

\* C9: the stored status of a Decision changes only along
\* proposed -> approved -> implemented or proposed -> approved -> failed.
C9_DecisionLifecycle ==
  [][\A d \in decisionNodes, e \in decisionNodes' :
       d.graph_unique_id = e.graph_unique_id
         => \/ e.status = d.status
            \/ <<d.status, e.status>> \in AllowedStatusTransitions]_vars

BulkDeletes == {"bulkDeleteByType", "bulkDeleteByTag", "bulkDeleteByBranch",
                "bulkDeleteByRepository"}

\* C10: a bulk delete called with dryRun = true leaves every node, edge and
\* property of the graph as it was, whether it returns or throws.
C10_DryRunNeverMutates ==
  [][(ret'.op \in BulkDeletes /\ ret'.args.dryRun) => UNCHANGED graphVars]_vars

\* a dry run by repository that reports entities which are all still there
C10_Witness ==
  /\ ret.op = "bulkDeleteByRepository"
  /\ ret.args.dryRun
  /\ ret.outcome = "returned"
  /\ ret.value.count >= 2
  /\ \E f \in fileNodes : f.repository = ret.args.repositoryName
  /\ \E c \in componentNodes : c.repository = ret.args.repositoryName
  /\ \E e \in DOMAIN rels : e.type = "CONTAINS_FILE"

\* the entities of (repositoryName, branch) that tag_item has tagged with tagId
TaggedInScope(repositoryName, branch, tagId) ==
  {e.from : e \in {x \in DOMAIN rels :
                     /\ x.type = "IS_TAGGED_WITH"
                     /\ x.to = TagRef(tagId)
                     /\ \E n \in NodesOf(x.from.label) :
                          /\ NodeRef(x.from.label, n) = x.from
                          /\ Matches(n, [repository |-> repositoryName,
                                         branch |-> branch])}}

\* C11: when the tag exists, a dry run of bulkDeleteByTag that returns
\* reports as count the number of entities of the scope that tag_item has
\* tagged with it, and no warning.
C11_DryRunByTagCountsTagged ==
  [][( /\ ret'.op = "bulkDeleteByTag"
       /\ ret'.outcome = "returned"
       /\ ret'.args.dryRun
       /\ \E t \in tagNodes : t.id = ret'.args.tagId )
       => /\ ret'.value.count =
               Cardinality(TaggedInScope(ret'.args.repositoryName,
                                         ret'.args.branch, ret'.args.tagId))
          /\ ret'.value.warnings = {}]_vars

\* the entities a bulk delete by repository matches in the current graph
MatchedByRepository(repositoryName) ==
  processEntityTypes(CurrentGraph, ScopedEntityTypes,
                     [repository |-> repositoryName], TRUE, MaxQueries).count

\* C12: a bulk delete that is not a dry run, is not forced and matches more
\* than the safety threshold of entities deletes nothing.
C12_ThresholdNeedsForce ==
  [][( /\ ret'.op = "bulkDeleteByRepository"
       /\ ~ret'.args.dryRun
       /\ ~ret'.args.force
       /\ MatchedByRepository(ret'.args.repositoryName) > SafetyThreshold )
       => UNCHANGED graphVars]_vars

\* the logical repository name a scoped node belongs to
LogicalRepositoryOf(node) ==
  IF "repository" \in DOMAIN node
    THEN Split(node.repository)[1]
    ELSE Split(node.graph_unique_id)[1]

BelongsTo(node, repositoryName) ==
  \/ LogicalRepositoryOf(node) = repositoryName
  \/ ("repository" \in DOMAIN node /\ node.repository = repositoryName)

\* C13: after a bulk delete by repository that is not a dry run and returns,
\* no Component, Decision, File or Metadata of that repository is left on any
\* branch, no Repository node of that name is left, and every Tag is kept.
C13_RepositoryDeleteRemovesAll ==
  [][( /\ ret'.op = "bulkDeleteByRepository"
       /\ ret'.outcome = "returned"
       /\ ~ret'.args.dryRun )
       => /\ \A n \in componentNodes' \cup decisionNodes' \cup fileNodes'
                        \cup metadataNodes' :
               ~BelongsTo(n, ret'.args.repositoryName)
          /\ \A r \in repositoryNodes' : r.name # ret'.args.repositoryName
          /\ tagNodes \subseteq tagNodes']_vars

(***************************************************************************)
(* Claims on the tool dispatcher.                                          *)
(***************************************************************************)

\* the last request was a tool call that failed for one of the four reasons
FailedToolCall ==
  /\ response.kind # "none"
  /\ \/ response.toolName \notin ListedTools
     \/ ~response.hasRoot
     \/ response.toolName \notin HandledTools
     \/ response.outcome = "throws"

\* C14: every failed tool call (unknown tool name, missing clientProjectRoot,
\* missing handler, or a handler that throws) ends with the response
\* {isError: true, content: [text]} without structuredContent.
C14_FailedCallYieldsErrorEnvelope ==
  FailedToolCall =>
    /\ response.kind = "envelope"
    /\ response.isError
    /\ ~response.structuredContent

\* C15: when the operation underlying a handler failed, the response of the
\* call is never a success body: it neither has isError = false nor carries
\* structuredContent.
C15_NoSuccessBodyAfterFailure ==
  (response.handlerInvoked /\ OperationFailed(response.outcome)) =>
    ~(response.kind = "envelope" /\ (~response.isError \/ response.structuredContent))

(***************************************************************************)
(* Claims on the entity upserts.                                           *)
(***************************************************************************)

\* the value returned by the upsert is the node the store holds afterwards
StoredPostImage ==
  CASE ret'.op = "upsertMetadata" -> ret'.value \in metadataNodes'
    [] ret'.op = "upsertDecision" ->
         \E d \in decisionNodes' :
           /\ d.id = ret'.value.id
           /\ d.graph_unique_id = ret'.value.graph_unique_id
           /\ d.title = ret'.value.name
           /\ d.status = ret'.value.status
    [] OTHER -> TRUE

\* C16: an entity upsert whose engine query fails raises an error and returns
\* no entity value; an upsert that returns a value has written it, and the
\* value is the stored post-image.
C16_UpsertsFailHard ==
  [][ret'.op \in {"upsertMetadata", "upsertDecision"} =>
       /\ ret'.args.engineFails => ret'.outcome = "threw"
       /\ ret'.outcome = "returned" => StoredPostImage]_vars

(***************************************************************************)
(* Claims on sessions.                                                     *)
(***************************************************************************)

\* the call ended in the session error of the dispatcher
FailsWithSessionError(r) ==
  /\ r.kind = "thrown" \/ (r.kind = "envelope" /\ r.isError)
  /\ r.text = "clientProjectRoot context not established"

UnboundCallIsRefused ==
  ~response'.hasRoot =>
    /\ FailsWithSessionError(response')
    /\ ~response'.handlerInvoked
    /\ UNCHANGED <<graphVars, ret>>

HandlerRunsOnlyAfterInit ==
  response'.handlerInvoked => response'.connection \in initDone

\* C17: a call of a tool other than init-memory-bank without clientProjectRoot
\* fails with the session error before any service or store operation runs
\* (the graph is unchanged), and the handler of such a tool never runs on a
\* connection on which init-memory-bank has not run before.
C17_SessionEnforcement ==
  [][(response'.kind # "none" /\ response'.toolName \in ListedTools \ {InitTool}) =>
       /\ UnboundCallIsRefused
       /\ HandlerRunsOnlyAfterInit]_vars

\* the last request carried no session id, or one that the table does not hold
WithoutValidSession ==
  /\ httpResponse'.method \in {"POST", "GET", "DELETE"}
  /\ httpResponse'.header \notin transports

\* C18: a POST /mcp without a session header is accepted only if its body is
\* an initialise request, and it then creates exactly one new session; every
\* other POST, GET or DELETE without a session id, or with an id that is not
\* in the session table, is answered 400 and reaches no transport.
C18_HttpSessionProtocol ==
  [][WithoutValidSession =>
       IF /\ httpResponse'.method = "POST"
          /\ httpResponse'.header = NoHeader
          /\ httpResponse'.isInitialize
         THEN /\ httpResponse'.status = "200"
              /\ \E sessionId \in SessionIds \ transports :
                   transports' = transports \cup {sessionId}
         ELSE /\ httpResponse'.status = "400"
              /\ ~httpResponse'.reachedTransport
              /\ transports' = transports]_vars

\* session ids that were in the table and have been released
ReleasedIds == issued \ transports

\* C19: when the transport of a session closes (disconnect, or termination
\* by DELETE) its id leaves the session table and all other ids stay; no id
\* leaves the table in any other step; a released id never returns, and every
\* later request that carries it is answered 400 without reaching a transport.
C19_SessionRelease ==
  [][/\ httpResponse'.closed # NoHeader =>
          /\ httpResponse'.closed \in transports
          /\ transports' = transports \ {httpResponse'.closed}
     /\ transports \ transports' \subseteq {httpResponse'.closed}
     /\ ReleasedIds \cap transports' = {}
     /\ ( /\ httpResponse'.method \in {"POST", "GET", "DELETE"}
          /\ httpResponse'.header \in ReleasedIds )
          => /\ httpResponse'.status = "400"
             /\ ~httpResponse'.reachedTransport]_vars

\* a request with a released id was refused while another session is open
C19_Witness ==
  /\ httpResponse.method \in {"POST", "GET", "DELETE"}
  /\ httpResponse.header \in ReleasedIds
  /\ httpResponse.status = "400"
  /\ transports # {}

(***************************************************************************)
(* Claims on progress notifications.                                       *)
(***************************************************************************)
RECURSIVE SelectToken(_, _)
SelectToken(notifications, progressToken) ==
  IF notifications = << >> THEN << >>
  ELSE IF Head(notifications).progressToken = progressToken
    THEN <<Head(notifications).event>> \o SelectToken(Tail(notifications), progressToken)
    ELSE SelectToken(Tail(notifications), progressToken)

\* the events the caller of a request receives: the notifications on its
\* connection that carry its request id as progressToken, in arrival order
DeliveredTo(r) == SelectToken(wire[r.connection], r.requestId)

\* C20: the progress events emitted by a handler invocation reach the caller
\* of that request in the order emitted, tagged with the request id as
\* progressToken, and every notification on a connection belongs to a request
\* of that connection that emitted it, whatever the interleaving of requests.
C20_ProgressDelivery ==
  /\ \A slot \in RequestSlots :
       (requests[slot].state # "idle" /\ ~requests[slot].connectionLost) =>
         DeliveredTo(requests[slot]) = [k \in 1..requests[slot].emitted |-> k]
  /\ \A c \in Connections : \A i \in 1..Len(wire[c]) :
       \E slot \in RequestSlots :
         /\ requests[slot].state # "idle"
         /\ requests[slot].connection = c
         /\ requests[slot].requestId = wire[c][i].progressToken
         /\ wire[c][i].event <= requests[slot].emitted

(***************************************************************************)
(* Claims on the bulk import handler.                                      *)
(***************************************************************************)

\* C21: after the caller cancels a request the handler stops within one loop
\* iteration, the request ends with a Cancelled error without
\* structuredContent, and no progress event is emitted after the cancel (the
\* events emitted before it stay as they were).
C21_CancellationStopsHandler ==
  imp.cancelled =>
    /\ imp.i <= imp.cancelIndex + 1
    /\ Len(imp.events) = imp.cancelEvents
    /\ imp.state = "done" => imp.result = "cancelled"

\* the stored components that the item at the loop position names
ExistingItem == getComponent(ImportRepository, ImportBranch, imp.items[imp.i])

\* C26: with overwrite = false the import never modifies a component that
\* already exists in the scope when its item is processed: the stored
\* component is unchanged and the item is counted as skipped, also when
\* another request created the component after the existence check.
C26_NoOverwriteOfExisting ==
  [][( /\ imp.state = "running" /\ ~imp.overwrite
       /\ imp'.i = imp.i + 1
       /\ ExistingItem # {} )
       => /\ componentNodes' = componentNodes
          /\ imp'.failed = imp.failed => imp'.skipped = imp.skipped + 1]_vars

\* C27: when an import of N items has completed, every item was processed
\* exactly once and in order, whatever failed before it, and
\* imported + skipped + failed = N with one errors entry per failed item.
C27_ImportAccounting ==
  imp.state = "done" =>
    /\ imp.processed = [k \in 1..Len(imp.items) |-> k]
    /\ imp.imported + imp.skipped + imp.failed = Len(imp.items)
    /\ Len(imp.errors) = imp.failed

\* an import of several items has completed with an import, and a failure
\* before its last item
C27_Witness ==
  /\ imp.state = "done"
  /\ Len(imp.items) = MaxItems
  /\ imp.failed > 0
  /\ imp.imported > 0
  /\ imp.errors[1] = imp.items[1]

(***************************************************************************)
(* Claims on the component dependencies.                                   *)
(***************************************************************************)

\* the components reachable by a DEPENDS_ON path of length 1..depth
RECURSIVE ReachableWithin(_, _)
ReachableWithin(id, depth) ==
  IF depth = 0 THEN {}
  ELSE LET direct == {to \in DependencyIds : DependsOn(id, to)}
       IN direct \cup UNION {ReachableWithin(d, depth - 1) : d \in direct}

\* C22: for every depth d >= 1 and every DEPENDS_ON graph the dependencies
\* returned for (id, d) are the components reachable from id by a path of
\* length 1..d, each exactly once, and no other component.
C22_DependenciesWithinDepth ==
  [][ret'.op = "ComponentDependencies" =>
       LET deps == ret'.value.dependencies
       IN /\ Elements(deps) = ReachableWithin(ret'.args.componentId, ret'.args.depth)
          /\ Len(deps) = Cardinality(Elements(deps))]_vars

(***************************************************************************)
(* Claims on the decisions.                                                *)
(***************************************************************************)

\* the decisions that upsertDecision wrote in the scope of the query
DecisionsOfScope(repositoryNodeId, branch) ==
  {d \in decisionNodes :
     \E id \in DecisionIds :
       d.graph_unique_id = formatGraphUniqueId(Split(repositoryNodeId)[1], branch, id)}

\* C23: a decision written by upsertDecision with date D in (repository,
\* branch) is returned by the date-range query on that scope if and only if
\* start <= D <= end, both bounds included.
C23_DateRangeInclusive ==
  [][(ret'.op = "getDecisionsByDateRange" /\ UNCHANGED graphVars) =>
       \A d \in DecisionsOfScope(ret'.args.repository, ret'.args.branch) :
         (d.graph_unique_id \in ret'.value.decisions)
           <=> (ret'.args.startDate <= d.dateCreated /\
                d.dateCreated <= ret'.args.endDate)]_vars

\* C24: across the upserts of one entity (Tag, File, Metadata, Decision)
\* created_at keeps the value of the creating upsert, updated_at never
\* decreases, and every upsert that matches an existing node advances
\* updated_at (read in the clock's precision: an upsert at a later clock
\* reading leaves a later updated_at).
C24_UpsertTimestamps ==
  [][ret'.op = "upsert" =>
       \A kind \in EntityKinds :
         stamps[kind].exists =>
           /\ stamps'[kind].created_at = stamps[kind].created_at
           /\ stamps'[kind].updated_at >= stamps[kind].updated_at
           /\ (ret'.args.kind = kind /\ clock' > clock)
                => stamps'[kind].updated_at > stamps[kind].updated_at]_vars

(***************************************************************************)
(* Claims on the associate handler.                                        *)
(***************************************************************************)
FinalEvents(trace) == {i \in DOMAIN trace : trace[i].isFinal}
ServiceCalls(trace) == {i \in DOMAIN trace : trace[i].kind = "service"}

C28_UpdateRuleFrame ==
  [][ret'.op = "updateRule" =>
       \A before \in getRule(ret'.args.id) :
         \A after \in RulesIn(ruleNodes', ret'.args.id) :
           \A f \in RuleFields :
             ret'.args.updates[f] = Undefined => after[f] = before[f]]_vars

(***************************************************************************)
(* Claims on the dry run of the bulk deletes.                              *)
(***************************************************************************)
DryRunOps == {"bulkDeleteByTag", "bulkDeleteByRepository"}

\* the nodes a step removes from the graph
RemovedNodes ==
  UNION {{<<l, n>> : n \in CurrentGraph.nodes[l] \ CurrentGraph'.nodes[l]} :
           l \in DOMAIN CurrentGraph.nodes}

\* the last call was a dry run that returned, and this step is the same
\* call with the same arguments, dryRun = false, on the graph the dry run
\* saw (a dry run leaves the graph as it is)
RealRunAfterDryRun ==
  /\ ret.op \in DryRunOps /\ ret.outcome = "returned" /\ ret.args.dryRun
  /\ ret'.op = ret.op /\ ret'.outcome = "returned"
  /\ ret'.args = [ret.args EXCEPT !.dryRun = FALSE]

\* C29: for bulkDeleteByTag and bulkDeleteByRepository on the same graph
\* with the same arguments, the count and the entity list reported with
\* dryRun = true equal the count and the entity list returned with
\* dryRun = false, and the nodes actually removed are as many as reported.
C29_DryRunFidelity ==
  [][RealRunAfterDryRun =>
       /\ ret'.value.count = ret.value.count
       /\ ret'.value.entities = ret.value.entities
       /\ Cardinality(RemovedNodes) = ret.value.count]_vars

(***************************************************************************)
(* Claims on ComponentDependenciesOperation.execute.                       *)
(***************************************************************************)
FinalResponses(trace) == {i \in DOMAIN trace : trace[i].method = "sendFinalResponse"}
FinalProgress(trace) == {i \in DOMAIN trace : trace[i].method = "progress" /\ trace[i].isFinal}

ExactlyOneFinalResponse(e) ==
  /\ Cardinality(FinalResponses(e.trace)) = 1
  /\ e.trace[Len(e.trace)].method = "sendFinalResponse"
  /\ Cardinality(FinalProgress(e.trace)) = 1
  /\ Len(e.trace) - 1 \in FinalProgress(e.trace)
  /\ e.result = "returns null"

\* C30: with a progress handler, every execution that passes the argument
\* validation (success or failure, a failure raised while reporting
\* included) calls sendFinalResponse exactly once, as the last call on the
\* handler, immediately after the single progress event with isFinal, and
\* returns null; without a handler no call is made on it and the result
\* payload is returned or the error thrown.
C30_FinalResponseOnce ==
  (exec.done /\ exec.valid) =>
    IF exec.hasHandler
      THEN ExactlyOneFinalResponse(exec)
      ELSE /\ exec.trace = << >>
           /\ exec.result \in {"returns the result payload", "throws"}

=============================================================================
